---- MODULE Spec2Model ----
(***************************************************************************)
(* State-machine model of the session orchestration layer:                 *)
(*   - the signaling process  (apps/signaling/src/server.ts)               *)
(*   - the media engine       (apps/media-worker/src/index.ts)             *)
(* Each process is a single-threaded event loop.  One action models one    *)
(* synchronous segment of a handler: from the arrival of an event (or the  *)
(* resumption after an await) up to the next await or the handler's end.   *)
(***************************************************************************)
EXTENDS Integers, Sequences, FiniteSets, TLC

VARIABLES
    \* ---- signaling process ----
    authRequired,    \* process.env.AUTH_REQUIRED === "true"
    mediaWorkerUrl,  \* TRUE iff MEDIA_WORKER_URL is a non-empty string
    sockAuth,        \* per socket: "pending" | "ok" | "none"  (socket.data.auth)
    connected,       \* per socket: still connected
    sioRooms,        \* per socket: socket.rooms (minus its own id), in join order
    rooms,           \* the Map<string, RoomState> of the signaling process
    sigPending,      \* handlers of the signaling process suspended at an await
    nextProducerId,  \* next producer id the media engine hands to the signaling process
    nextMsgId,       \* next randomUUID() of a chat message
    chatLog,         \* per room: every accepted chat message, in arrival order
    sigOut,          \* what the last segment emitted and acknowledged
    \* ---- media engine process ----
    meAlive,         \* the process is running
    workers,         \* the worker pool, a sequence of worker ids
    nextWorkerIndex, \* the round-robin counter
    meRooms,         \* the Map<string, RoomState>: room id -> room object (by its router)
    meObjs,          \* every RoomState object built so far, by the id of its Router
    nextRouterId,    \* Routers requested from the SDK so far, plus one
    closedRouters,   \* Routers the SDK has closed
    meTransports,    \* SDK transports: id -> [router, closed, connected]
    meProducers,     \* SDK producers: id -> [transport, kind, closed]
    meConsumers,     \* SDK consumers: id -> [transport, producer, kind]
    mePending,       \* request handlers of the media engine suspended at an await
    meNow,           \* the wall clock read by new Date()
    firstPost,       \* per room id: createdAt answered by the first POST /rooms completed
                     \* since the id was last deleted (0: none)
    meOut            \* the last response written

sigVars == <<authRequired, mediaWorkerUrl, sockAuth, connected, sioRooms, rooms,
             sigPending, nextProducerId, nextMsgId, chatLog, sigOut>>

meVars == <<meAlive, workers, nextWorkerIndex, meRooms, meObjs, nextRouterId,
            closedRouters, meTransports, meProducers, meConsumers, mePending, meNow,
            firstPost, meOut>>

vars == <<sigVars, meVars>>

\* ------------------------------------------------------------------ bounds
MaxProducers == 2
\* chat messages accepted over a run (randomUUID ids 1..MaxMsgs)
MaxMsgs == 51
\* chat messages already in the history when the chat specification starts
ChatPrefill == 48
\* handlers of the signaling process suspended at an await at the same time
MaxPending == 2

\* Routers requested from the SDK over a run
MaxRouters == 3
\* request handlers of the media engine suspended at an await at the same time
MaxMePending == 2
\* transports the SDK creates over a run
MaxTransports == 2
\* producers the SDK creates over a run
MaxMeProducers == 2
\* consumers the SDK creates over a run
MaxConsumers == 2
\* size of the worker pool (MEDIASOUP_WORKERS)
WorkerCount == 2

\* --------------------------------------------------------------- constants
\* room.messages.slice(-49): the messages kept before the new one is appended
HistoryKeep == 49

Sockets == {"s1", "s2"}
RoomIds == {"r1", "r2"}

\* JavaScript values a payload field can carry
Undefined == "<undefined>"
Blank == "  "

\* ------------------------------------------------------------ pure helpers
\* String.prototype.trim on the payload values the model sends
Trim(v) ==
    CASE v = " u1 " -> "u1"
      [] v = " r1 " -> "r1"
      [] v = Blank -> ""
      [] OTHER -> v

\* mutant of sanitizeText: the value is not trimmed before the emptiness test
sanitizeText_NoTrim(value, fallback) ==
    IF value # Undefined /\ value # "" THEN value ELSE fallback

\* sanitizeText: a string with a non-empty trim is trimmed, anything else is the fallback
sanitizeText(value, fallback) ==
    IF value # Undefined /\ Trim(value) # "" THEN Trim(value) ELSE fallback

sanitizeRole(value) ==
    IF value \in {"host", "cohost", "speaker"} THEN value ELSE "viewer"

\* Boolean(payload?.raisedHand)
ToBoolean(v) == v \notin {Undefined, "false", ""}

Last(n, s) == IF Len(s) <= n THEN s ELSE SubSeq(s, Len(s) - n + 1, Len(s))

SeqToSet(s) == {s[i] : i \in 1..Len(s)}

RemoveFromSeq(s, x) == SelectSeq(s, LAMBDA y : y # x)

\* the identity next-auth resolves for a socket with a valid token
AuthUser(s) == [userId |-> "auth-" \o s, name |-> "N-" \o s]

\* ----------------------------------------------------------- room state
EmptyRoom ==
    [participants |-> <<>>, messages |-> <<>>, rtpCapabilities |-> "none",
     producers |-> <<>>]

\* getRoomState: the rooms map after the lookup (a miss registers an empty room)
getRoomState(rs, roomId) ==
    IF roomId \in DOMAIN rs THEN rs ELSE (roomId :> EmptyRoom) @@ rs

\* sockets that are members of the socket.io room
Members(sio, roomId) == {t \in Sockets : roomId \in SeqToSet(sio[t])}

\* socket.join(roomId)
SioJoin(sio, s, roomId) ==
    IF roomId \in SeqToSet(sio[s]) THEN sio
    ELSE [sio EXCEPT ![s] = Append(@, roomId)]

\* socket.leave(roomId)
SioLeave(sio, s, roomId) == [sio EXCEPT ![s] = RemoveFromSeq(@, roomId)]

Emit(ev, to, data) == [ev |-> ev, to |-> to, data |-> data]

NoData == [none |-> TRUE]

\* what one segment emitted, in order, and the acknowledgment it passed to the
\* requester's callback ("none": no callback call)
Out(emits, ack, ackData) == [emits |-> emits, ack |-> ack, ackData |-> ackData]

\* function f without key k
DropKey(f, k) == [x \in DOMAIN f \ {k} |-> f[x]]

\* function f with key k set to v
PutKey(f, k, v) == (k :> v) @@ f

\* --------------------------------------------------------------- inputs
\* identity fields a room:join payload can carry
JoinIdentities ==
    { [userId |-> " u1 ", displayName |-> "Ann", role |-> "host"],
      [userId |-> Undefined, displayName |-> Blank, role |-> "admin"] }

\* roomId values a payload can carry
RoomInputs == RoomIds \cup {Undefined, " r1 "}

\* ----------------------------------------------------- connection / auth
\* the .then/.catch of resolveAuth(socket) in the connection handler
AuthResolve(s, valid) ==
    /\ connected[s]
    /\ sockAuth[s] = "pending"
    /\ IF valid
       THEN /\ sockAuth' = [sockAuth EXCEPT ![s] = "ok"]
            /\ sigOut' = Out(<<>>, "none", NoData)
            /\ UNCHANGED <<connected, sioRooms>>
       ELSE \* socket.emit("error"); socket.disconnect(): the socket is in no room
            \* yet, because every join before this point was refused
            /\ sockAuth' = [sockAuth EXCEPT ![s] = "none"]
            /\ connected' = [connected EXCEPT ![s] = FALSE]
            /\ sioRooms' = [sioRooms EXCEPT ![s] = <<>>]
            /\ sigOut' = Out(<<Emit("error", {s}, [error |-> "Unauthorized"])>>,
                             "none", NoData)
    /\ UNCHANGED meVars
    /\ UNCHANGED <<authRequired, mediaWorkerUrl, rooms, sigPending, nextProducerId,
                   nextMsgId, chatLog>>

\* ------------------------------------------------------------- room:join
\* mutant of NewParticipant: the record starts with a raised hand
NewParticipant_HandRaised(s, userId, displayName, role) ==
    [userId |-> userId, socketId |-> s, displayName |-> displayName, role |-> role,
     raisedHand |-> TRUE, producerIds |-> <<>>]

\* the RoomParticipant record (joinedAt, a wall-clock string, is left out)
NewParticipant(s, userId, displayName, role) ==
    [userId |-> userId, socketId |-> s, displayName |-> displayName, role |-> role,
     raisedHand |-> FALSE, producerIds |-> <<>>]

\* mutant of Roster: the joiner's own record is not filtered out
Roster_WithSelf(room, s) ==
    {room.participants[t] : t \in DOMAIN room.participants}

\* the roster sent to the joiner: every participant record but the joiner's own
Roster(room, s) ==
    {room.participants[t] : t \in {u \in DOMAIN room.participants :
                                      room.participants[u].socketId # s}}

RosterData(room, s) ==
    [peers |-> Roster(room, s), messages |-> room.messages,
     rtpCapabilities |-> room.rtpCapabilities,
     producers |-> {room.producers[id] : id \in DOMAIN room.producers}]

JoinPending(s, roomId) == [kind |-> "join", sock |-> s, room |-> roomId, mkind |-> "-"]

\* mutant of NeedsFetch: no join fetches
NeedsFetch_Never(room) == FALSE

\* mutant of NeedsFetch: the cache is not consulted
NeedsFetch_Always(room) == TRUE

\* the cache check before the capability fetch
NeedsFetch(room) == room.rtpCapabilities = "none"

\* room:join up to its await (or to its end when nothing is fetched)
RoomJoin(s, roomIdIn, ident) ==
    /\ connected[s]
    /\ LET roomId == sanitizeText(roomIdIn, "") IN
       IF authRequired /\ sockAuth[s] # "ok"
       THEN /\ sigOut' = Out(<<>>, "Unauthorized", NoData)
            /\ UNCHANGED <<sioRooms, rooms, sigPending>>
       ELSE IF roomId = ""
       THEN /\ sigOut' = Out(<<>>, "Missing roomId", NoData)
            /\ UNCHANGED <<sioRooms, rooms, sigPending>>
       ELSE
         /\ JoinPending(s, roomId) \notin sigPending
         /\ NeedsFetch(getRoomState(rooms, roomId)[roomId]) /\ mediaWorkerUrl
               => Cardinality(sigPending) < MaxPending
         /\ LET hasAuth == sockAuth[s] = "ok"
                userId == IF hasAuth THEN AuthUser(s).userId
                          ELSE sanitizeText(ident.userId, s)
                displayName == sanitizeText(ident.displayName,
                                   IF hasAuth THEN AuthUser(s).name ELSE userId)
                role == sanitizeRole(ident.role)
                sio2 == SioJoin(sioRooms, s, roomId)
                rs1 == getRoomState(rooms, roomId)
                participant == NewParticipant(s, userId, displayName, role)
                room2 == [rs1[roomId] EXCEPT !.participants = PutKey(@, s, participant)]
                emits == << Emit("room:peer-joined", Members(sio2, roomId) \ {s}, participant),
                            Emit("room:roster", {s}, RosterData(room2, s)) >>
                fetch == NeedsFetch(room2) /\ mediaWorkerUrl
            IN /\ sioRooms' = sio2
               /\ rooms' = [rs1 EXCEPT ![roomId] = room2]
               /\ IF fetch
                  THEN /\ sigPending' = sigPending \cup {JoinPending(s, roomId)}
                       /\ sigOut' = Out(emits, "none", NoData)
                  ELSE \* cached, or fetchRtpCapabilities returned null at once
                       /\ sigPending' = sigPending
                       /\ sigOut' = Out(emits, "ok", NoData)
    /\ UNCHANGED meVars
    /\ UNCHANGED <<authRequired, mediaWorkerUrl, sockAuth, connected, nextProducerId,
                   nextMsgId, chatLog>>

\* mutant of RoomJoinResume: the capabilities go to the other members only
RoomJoinResume_ToOthers(p, caps) ==
    /\ p \in sigPending
    /\ p.kind = "join"
    /\ sigPending' = sigPending \ {p}
    /\ IF caps # "none"
       THEN /\ rooms' = [rooms EXCEPT ![p.room].rtpCapabilities = caps]
            /\ sigOut' = Out(<<Emit("room:rtp-capabilities",
                                    Members(sioRooms, p.room) \ {p.sock},
                                    [rtpCapabilities |-> caps])>>,
                             "ok", NoData)
       ELSE /\ rooms' = rooms
            /\ sigOut' = Out(<<>>, "ok", NoData)
    /\ UNCHANGED meVars
    /\ UNCHANGED <<authRequired, mediaWorkerUrl, sockAuth, connected, sioRooms,
                   nextProducerId, nextMsgId, chatLog>>

\* room:join after `await fetchRtpCapabilities(roomId)`; caps = "none" is its null
RoomJoinResume(p, caps) ==
    /\ p \in sigPending
    /\ p.kind = "join"
    /\ sigPending' = sigPending \ {p}
    /\ IF caps # "none"
       THEN /\ rooms' = [rooms EXCEPT ![p.room].rtpCapabilities = caps]
            /\ sigOut' = Out(<<Emit("room:rtp-capabilities", Members(sioRooms, p.room),
                                    [rtpCapabilities |-> caps])>>,
                             "ok", NoData)
       ELSE /\ rooms' = rooms
            /\ sigOut' = Out(<<>>, "ok", NoData)
    /\ UNCHANGED meVars
    /\ UNCHANGED <<authRequired, mediaWorkerUrl, sockAuth, connected, sioRooms,
                   nextProducerId, nextMsgId, chatLog>>

\* ------------------------------------------------ room:leave / disconnect
\* producer ids the participant record of socket s lists (empty without a record)
OwnedProducers(room, s) ==
    IF s \in DOMAIN room.participants THEN room.participants[s].producerIds ELSE <<>>

\* mutant of DepartState: the whole producer index is cleared
DepartState_ClearIndex(room, s) ==
    [room EXCEPT !.participants = DropKey(@, s), !.producers = <<>>]

\* mutant of DepartState: a room left by its last participant is reset
DepartState_ResetWhenEmpty(room, s) ==
    IF DOMAIN room.participants \subseteq {s} THEN EmptyRoom
    ELSE [room EXCEPT !.participants = DropKey(@, s),
                      !.producers = [id \in DOMAIN @ \ SeqToSet(OwnedProducers(room, s)) |-> @[id]]]

\* the room after the participant of socket s and the producers it lists are deleted
DepartState(room, s) ==
    [room EXCEPT !.participants = DropKey(@, s),
                 !.producers = [id \in DOMAIN @ \ SeqToSet(OwnedProducers(room, s)) |-> @[id]]]

\* mutant of DepartEmits: room:peer-left is emitted first
DepartEmits_LeftFirst(room, s, to) ==
    LET owned == OwnedProducers(room, s)
    IN (IF s \in DOMAIN room.participants
        THEN <<Emit("room:peer-left", to, [userId |-> room.participants[s].userId])>>
        ELSE <<>>)
       \o [i \in 1..Len(owned) |-> Emit("room:producer-removed", to, [producerId |-> owned[i]])]

\* mutant of DepartEmits: room:peer-left is emitted without a participant record
DepartEmits_Always(room, s, to) ==
    LET owned == OwnedProducers(room, s)
    IN [i \in 1..Len(owned) |-> Emit("room:producer-removed", to, [producerId |-> owned[i]])]
       \o <<Emit("room:peer-left", to,
                 [userId |-> IF s \in DOMAIN room.participants
                             THEN room.participants[s].userId ELSE s])>>

\* one room:producer-removed per listed producer id, then room:peer-left
DepartEmits(room, s, to) ==
    LET owned == OwnedProducers(room, s)
    IN [i \in 1..Len(owned) |-> Emit("room:producer-removed", to, [producerId |-> owned[i]])]
       \o (IF s \in DOMAIN room.participants
           THEN <<Emit("room:peer-left", to, [userId |-> room.participants[s].userId])>>
           ELSE <<>>)

RoomLeave(s, roomIdIn) ==
    /\ connected[s]
    /\ LET roomId == sanitizeText(roomIdIn, "") IN
       IF roomId = ""
       THEN /\ sigOut' = Out(<<>>, "none", NoData)
            /\ UNCHANGED <<sioRooms, rooms>>
       ELSE LET sio2 == SioLeave(sioRooms, s, roomId) IN
         /\ sioRooms' = sio2
         /\ IF roomId \notin DOMAIN rooms
            THEN /\ rooms' = rooms
                 /\ sigOut' = Out(<<>>, "none", NoData)
            ELSE /\ rooms' = [rooms EXCEPT ![roomId] = DepartState(@, s)]
                 /\ sigOut' = Out(DepartEmits(rooms[roomId], s, Members(sio2, roomId) \ {s}),
                                  "none", NoData)
    /\ UNCHANGED meVars
    /\ UNCHANGED <<authRequired, mediaWorkerUrl, sockAuth, connected, sigPending,
                   nextProducerId, nextMsgId, chatLog>>

\* mutant of DisconnectRooms: the loop stops after the first room
DisconnectRooms_FirstOnly(rs, s, ids) ==
    IF ids = <<>> \/ Head(ids) \notin DOMAIN rs THEN rs
    ELSE [rs EXCEPT ![Head(ids)] = DepartState(@, s)]

\* the loop of the disconnecting handler over socket.rooms, in iteration order
RECURSIVE DisconnectRooms(_, _, _)
DisconnectRooms(rs, s, ids) ==
    IF ids = <<>> THEN rs
    ELSE LET roomId == Head(ids)
             rs2 == IF roomId \in DOMAIN rs
                    THEN [rs EXCEPT ![roomId] = DepartState(@, s)]
                    ELSE rs
         IN DisconnectRooms(rs2, s, Tail(ids))

RECURSIVE DisconnectEmits(_, _, _, _)
DisconnectEmits(rs, sio, s, ids) ==
    IF ids = <<>> THEN <<>>
    ELSE LET roomId == Head(ids)
             here == IF roomId \in DOMAIN rs
                     THEN DepartEmits(rs[roomId], s, Members(sio, roomId) \ {s})
                     ELSE <<>>
         IN here \o DisconnectEmits(rs, sio, s, Tail(ids))

\* the socket disconnects: the disconnecting handler, then socket.io empties socket.rooms
Disconnecting(s) ==
    /\ connected[s]
    /\ rooms' = DisconnectRooms(rooms, s, sioRooms[s])
    /\ sigOut' = Out(DisconnectEmits(rooms, sioRooms, s, sioRooms[s]), "none", NoData)
    /\ connected' = [connected EXCEPT ![s] = FALSE]
    /\ sioRooms' = [sioRooms EXCEPT ![s] = <<>>]
    /\ UNCHANGED meVars
    /\ UNCHANGED <<authRequired, mediaWorkerUrl, sockAuth, sigPending, nextProducerId,
                   nextMsgId, chatLog>>


\* ---------------------------------------------------------- room:message
TextInputs == {"hi", Blank}

\* mutant of AppendMessage: the history is not cut before the append
AppendMessage_NoSlice(messages, message) == Append(messages, message)

\* room.messages = [...room.messages.slice(-49), message]
AppendMessage(messages, message) == Append(Last(HistoryKeep, messages), message)

\* mutant of NewMessage: the message carries the connection id, not the recorded userId
NewMessage_SocketAsUser(id, roomId, sender, text) ==
    [id |-> id, roomId |-> roomId, userId |-> sender.socketId,
     displayName |-> sender.displayName, message |-> text]

\* the RoomMessage record (createdAt, a wall-clock string, is left out)
NewMessage(id, roomId, sender, text) ==
    [id |-> id, roomId |-> roomId, userId |-> sender.userId,
     displayName |-> sender.displayName, message |-> text]

RoomMessage(s, roomIdIn, textIn) ==
    /\ connected[s]
    /\ LET roomId == sanitizeText(roomIdIn, "")
           messageText == sanitizeText(textIn, "")
       IN IF roomId = "" \/ messageText = ""
          THEN /\ sigOut' = Out(<<>>, "Missing data", NoData)
               /\ UNCHANGED <<rooms, nextMsgId, chatLog>>
          ELSE LET rs1 == getRoomState(rooms, roomId) IN
            IF s \notin DOMAIN rs1[roomId].participants
            THEN /\ rooms' = rs1
                 /\ sigOut' = Out(<<>>, "Not in room", NoData)
                 /\ UNCHANGED <<nextMsgId, chatLog>>
            ELSE LET message == NewMessage(nextMsgId, roomId,
                                           rs1[roomId].participants[s], messageText)
                 IN /\ nextMsgId <= MaxMsgs
                    /\ rooms' = [rs1 EXCEPT ![roomId].messages = AppendMessage(@, message)]
                    /\ nextMsgId' = nextMsgId + 1
                    /\ chatLog' = [chatLog EXCEPT ![roomId] = Append(@, message)]
                    /\ sigOut' = Out(<<Emit("room:message", Members(sioRooms, roomId), message)>>,
                                     "ok", NoData)
    /\ UNCHANGED meVars
    /\ UNCHANGED <<authRequired, mediaWorkerUrl, sockAuth, connected, sioRooms,
                   sigPending, nextProducerId>>

\* -------------------------------------------------------- room:raise-hand
\* the JavaScript values true and false, and a missing field
HandInputs == {"true", "false", Undefined}

\* mutant of SetRaisedHand: the updated record starts a new owned-producer list
SetRaisedHand_NewList(room, s, raisedHand) ==
    [room EXCEPT !.participants[s].raisedHand = raisedHand,
                 !.participants[s].producerIds = <<>>]

\* mutant of SetRaisedHand: the flag is toggled instead of set
SetRaisedHand_Toggle(room, s, raisedHand) ==
    [room EXCEPT !.participants[s].raisedHand = ~@]

\* room.participants.set(socket.id, { ...participant, raisedHand })
SetRaisedHand(room, s, raisedHand) ==
    [room EXCEPT !.participants[s].raisedHand = raisedHand]

\* the rooms map after room:raise-hand from socket s
RaiseHandState(rs, s, roomId, raisedHandIn) ==
    IF roomId = "" \/ roomId \notin DOMAIN rs THEN rs
    ELSE IF s \notin DOMAIN rs[roomId].participants THEN rs
    ELSE [rs EXCEPT ![roomId] = SetRaisedHand(@, s, ToBoolean(raisedHandIn))]

RoomRaiseHand(s, roomIdIn, raisedHandIn) ==
    /\ connected[s]
    /\ LET roomId == sanitizeText(roomIdIn, "")
           rs2 == RaiseHandState(rooms, s, roomId, raisedHandIn)
           isParticipant == /\ roomId \in DOMAIN rooms
                            /\ s \in DOMAIN rooms[roomId].participants
       IN /\ rooms' = rs2
          /\ sigOut' = Out(
                 IF isParticipant
                 THEN <<Emit("room:hand-raised", Members(sioRooms, roomId),
                             [userId |-> rs2[roomId].participants[s].userId,
                              raisedHand |-> rs2[roomId].participants[s].raisedHand])>>
                 ELSE <<>>,
                 "none", NoData)
    /\ UNCHANGED meVars
    /\ UNCHANGED <<authRequired, mediaWorkerUrl, sockAuth, connected, sioRooms,
                   sigPending, nextProducerId, nextMsgId, chatLog>>

\* ------------------------------------------------------ mediasoup:produce
Kinds == {"audio", "video"}
KindInputs == {"video", Undefined}
TransportInputs == {"t1", Undefined}

\* error texts callMediaWorker hands back
WorkerErrors == {"Transport not found", "Media worker request failed"}

ProducePending(s, roomId, kind) ==
    [kind |-> "produce", sock |-> s, room |-> roomId, mkind |-> kind]

\* mediasoup:produce up to `await callMediaWorker(...)`
Produce(s, roomIdIn, transportIn, kindIn) ==
    /\ connected[s]
    /\ LET roomId == sanitizeText(roomIdIn, "")
           transportId == sanitizeText(transportIn, "")
       IN IF roomId = "" \/ transportId = ""
          THEN /\ sigOut' = Out(<<>>, "Missing data", NoData)
               /\ UNCHANGED sigPending
          ELSE IF ~mediaWorkerUrl
          THEN /\ sigOut' = Out(<<>>,
                                "Media worker not configured", NoData)
               /\ UNCHANGED sigPending
          ELSE /\ ProducePending(s, roomId, kindIn) \notin sigPending
               /\ Cardinality(sigPending) < MaxPending
               /\ sigPending' = sigPending \cup {ProducePending(s, roomId, kindIn)}
               /\ sigOut' = Out(<<>>, "none", NoData)
    /\ UNCHANGED meVars
    /\ UNCHANGED <<authRequired, mediaWorkerUrl, sockAuth, connected, sioRooms, rooms,
                   nextProducerId, nextMsgId, chatLog>>

\* mutant of ProduceState: a sender without a participant record is given one
ProduceState_AddsParticipant(rs, s, roomId, data) ==
    LET rs1 == getRoomState(rs, roomId)
        room == IF s \in DOMAIN rs1[roomId].participants THEN rs1[roomId]
                ELSE [rs1[roomId] EXCEPT
                         !.participants = PutKey(@, s, NewParticipant(s, s, s, "viewer"))]
        summary == [id |-> data.id, userId |-> room.participants[s].userId,
                    kind |-> data.kind]
        room1 == [room EXCEPT !.participants[s].producerIds = Append(@, data.id)]
    IN [rs1 EXCEPT ![roomId] = [room1 EXCEPT !.producers = PutKey(@, data.id, summary)]]

\* mutant of ProduceState: the owned-producer list is left as it is
ProduceState_NoOwnedList(rs, s, roomId, data) ==
    LET rs1 == getRoomState(rs, roomId)
        room == rs1[roomId]
        summary == [id |-> data.id,
                    userId |-> IF s \in DOMAIN room.participants
                               THEN room.participants[s].userId ELSE s,
                    kind |-> data.kind]
    IN [rs1 EXCEPT ![roomId] = [room EXCEPT !.producers = PutKey(@, data.id, summary)]]

\* the rooms map after a successful produce: owned-producer list and producer index
ProduceState(rs, s, roomId, data) ==
    LET rs1 == getRoomState(rs, roomId)
        room == rs1[roomId]
        has == s \in DOMAIN room.participants
        summary == [id |-> data.id,
                    userId |-> IF has THEN room.participants[s].userId ELSE s,
                    kind |-> data.kind]
        room1 == IF has
                 THEN [room EXCEPT !.participants[s].producerIds = Append(@, data.id)]
                 ELSE room
    IN [rs1 EXCEPT ![roomId] = [room1 EXCEPT !.producers = PutKey(@, data.id, summary)]]

\* mediasoup:produce after the await, the media engine having answered 201 {id, kind}
ProduceResumeOk(p) ==
    /\ p \in sigPending
    /\ p.kind = "produce"
    /\ p.mkind \in Kinds
    /\ nextProducerId <= MaxProducers
    /\ LET data == [id |-> nextProducerId, kind |-> p.mkind]
           rs2 == ProduceState(rooms, p.sock, p.room, data)
       IN /\ rooms' = rs2
          /\ sigOut' = Out(<<Emit("room:producer-added", Members(sioRooms, p.room) \ {p.sock},
                                  rs2[p.room].producers[data.id])>>,
                           "ok", [producerId |-> data.id])
    /\ nextProducerId' = nextProducerId + 1
    /\ sigPending' = sigPending \ {p}
    /\ UNCHANGED meVars
    /\ UNCHANGED <<authRequired, mediaWorkerUrl, sockAuth, connected, sioRooms,
                   nextMsgId, chatLog>>

\* mutant of ErrorAck: the error is also emitted to every socket
ErrorAck_Broadcast(error) ==
    Out(<<Emit("error", Sockets, [error |-> error])>>, error, NoData)

\* mutant of ErrorAck: the callback is not called
ErrorAck_Silent(error) == Out(<<>>, "none", NoData)

\* callback?.({ ok: false, error }) and nothing else
ErrorAck(error) == Out(<<>>, error, NoData)

\* mediasoup:produce after the await, the call having failed
ProduceResumeFail(p, error) ==
    /\ p \in sigPending
    /\ p.kind = "produce"
    /\ sigPending' = sigPending \ {p}
    /\ sigOut' = ErrorAck(error)
    /\ UNCHANGED meVars
    /\ UNCHANGED <<authRequired, mediaWorkerUrl, sockAuth, connected, sioRooms, rooms,
                   nextProducerId, nextMsgId, chatLog>>

\* ------------------- mediasoup:create-transport / connect-transport / consume
\* producerId values a payload can carry
ProducerInputs == {"p1", Blank}

CallPending(s, kind, roomId) == [kind |-> kind, sock |-> s, room |-> roomId, mkind |-> "-"]

\* the handlers that only relay a call to the media engine
CallKinds == {"create-transport", "connect-transport", "consume"}

\* one of these handlers up to `await callMediaWorker(...)`: missing is the text
\* of its required-field check, "" when every required field is there
CallHandler(s, kind, roomId, missing) ==
    /\ connected[s]
    /\ IF missing # ""
       THEN /\ sigOut' = ErrorAck(missing)
            /\ UNCHANGED sigPending
       ELSE IF ~mediaWorkerUrl
       THEN /\ sigOut' = ErrorAck("Media worker not configured")
            /\ UNCHANGED sigPending
       ELSE /\ CallPending(s, kind, roomId) \notin sigPending
            /\ Cardinality(sigPending) < MaxPending
            /\ sigPending' = sigPending \cup {CallPending(s, kind, roomId)}
            /\ sigOut' = Out(<<>>, "none", NoData)
    /\ UNCHANGED <<authRequired, mediaWorkerUrl, sockAuth, connected, sioRooms, rooms,
                   nextProducerId, nextMsgId, chatLog>>

\* the handler as a step of the signaling process alone
CallRequest(s, kind, roomId, missing) ==
    /\ CallHandler(s, kind, roomId, missing)
    /\ UNCHANGED meVars

\* mediasoup:create-transport up to the call
CreateTransport(s, roomIdIn) ==
    LET roomId == sanitizeText(roomIdIn, "")
    IN CallRequest(s, "create-transport", roomId,
                   IF roomId = "" THEN "Missing roomId" ELSE "")

\* mediasoup:connect-transport up to the call
ConnectTransport(s, roomIdIn, transportIn) ==
    LET roomId == sanitizeText(roomIdIn, "")
        transportId == sanitizeText(transportIn, "")
    IN CallRequest(s, "connect-transport", roomId,
                   IF roomId = "" \/ transportId = "" THEN "Missing data" ELSE "")

\* mediasoup:consume up to the call
Consume(s, roomIdIn, transportIn, producerIn) ==
    LET roomId == sanitizeText(roomIdIn, "")
        transportId == sanitizeText(transportIn, "")
        producerId == sanitizeText(producerIn, "")
    IN CallRequest(s, "consume", roomId,
                   IF roomId = "" \/ transportId = "" \/ producerId = ""
                   THEN "Missing data" ELSE "")

\* what the handler passes to the callback with ok: true
CallAckData(kind) ==
    CASE kind = "create-transport" -> [transportOptions |-> [id |-> "t1"]]
      [] kind = "consume" -> [consumerOptions |-> [id |-> "c1"]]
      [] OTHER -> NoData

\* one of these handlers after the await, the media engine having answered 2xx
CallResumeOk(p) ==
    /\ p \in sigPending
    /\ p.kind \in CallKinds
    /\ sigPending' = sigPending \ {p}
    /\ sigOut' = Out(<<>>, "ok", CallAckData(p.kind))
    /\ UNCHANGED meVars
    /\ UNCHANGED <<authRequired, mediaWorkerUrl, sockAuth, connected, sioRooms, rooms,
                   nextProducerId, nextMsgId, chatLog>>

\* one of these handlers after the await, the call having failed
CallResumeFail(p, error) ==
    /\ p \in sigPending
    /\ p.kind \in CallKinds
    /\ sigPending' = sigPending \ {p}
    /\ sigOut' = ErrorAck(error)
    /\ UNCHANGED meVars
    /\ UNCHANGED <<authRequired, mediaWorkerUrl, sockAuth, connected, sioRooms, rooms,
                   nextProducerId, nextMsgId, chatLog>>

\* ========================================================== media engine
\* room ids that requests name
MeRoomIds == {"r1", "r2"}

\* mediaCodecs: the codec of each media kind
CodecOf(kind) == IF kind = "audio" THEN "audio/opus" ELSE "video/VP8"

\* router.rtpCapabilities: the same for every Router, derived from mediaCodecs
RouterCapabilities == [codecs |-> {CodecOf("audio"), CodecOf("video")}]

\* a response written by jsonResponse
Response(status, body) == [status |-> status, body |-> body]

ErrorBody(text) == [error |-> text]

\* a suspended request handler and what it holds in its closure
MeP(kind, req, roomId, obj, worker, arg) ==
    [kind |-> kind, req |-> req, room |-> roomId, obj |-> obj, worker |-> worker,
     arg |-> arg]

NoArg == [none |-> TRUE]

\* a handler reaches an await: it joins the suspended handlers. Two suspended
\* handlers are told apart by what they hold, so one that holds the same as
\* another waits for it
Suspend(pending, p) ==
    /\ p \notin pending
    /\ mePending' = pending \cup {p}

\* createWorkers: the pool size that is used
PoolSize(workerCount) == IF workerCount > 0 THEN workerCount ELSE 1

\* mutant of getNextWorker: the index is taken modulo one less than the pool size
getNextWorker_ShortWrap(ws, index) ==
    ws[(index % (IF Len(ws) > 1 THEN Len(ws) - 1 ELSE 1)) + 1]

\* getNextWorker: workers[nextWorkerIndex % workers.length]
getNextWorker(ws, index) == ws[(index % Len(ws)) + 1]

\* the body of POST /rooms and GET /rooms/{id}
RoomBody(obj) ==
    [roomId |-> obj.id, rtpCapabilities |-> RouterCapabilities, createdAt |-> obj.createdAt]

\* the RoomState object built after createRouter
NewRoomObj(roomId, router, worker, now) ==
    [id |-> roomId, router |-> router, worker |-> worker, createdAt |-> now,
     transports |-> {}, producers |-> {}]

\* getOrCreateRoom: `const existing = rooms.get(roomId); if (existing) return existing`
RoomLookup(registry, roomId) == roomId \in DOMAIN registry

\* getOrCreateRoom on a miss, up to `await worker.createRouter(...)`
CreateRouterCall(req, roomId) ==
    /\ nextRouterId <= MaxRouters
    /\ Cardinality(mePending) < MaxMePending
    /\ Suspend(mePending, MeP("createRouter", req, roomId, nextRouterId,
                               getNextWorker(workers, nextWorkerIndex), NoArg))
    /\ nextWorkerIndex' = nextWorkerIndex + 1
    /\ nextRouterId' = nextRouterId + 1

\* `await createWebRtcTransport(room.router)` is called on the room object obj
CreateTransportCall(pending, obj) ==
    Suspend(pending, MeP("createTransport", "transports", meObjs'[obj].id, obj, 0, NoArg))

\* the id POST /rooms uses: body.roomId when it is a string, else randomUUID()
PostRoomId(roomIdIn) ==
    IF roomIdIn # Undefined THEN roomIdIn ELSE "uuid-" \o ToString(nextRouterId)

\* POST /rooms after parseBody, up to the response or to the await in getOrCreateRoom
PostRooms(roomIdIn) ==
    /\ meAlive
    /\ LET roomId == PostRoomId(roomIdIn) IN
       IF RoomLookup(meRooms, roomId)
       THEN /\ meOut' = Response(201, RoomBody(meObjs[meRooms[roomId]]))
            /\ firstPost' = IF roomId \in DOMAIN firstPost THEN firstPost
                            ELSE PutKey(firstPost, roomId, meObjs[meRooms[roomId]].createdAt)
            /\ UNCHANGED <<mePending, nextWorkerIndex, nextRouterId>>
       ELSE /\ CreateRouterCall("rooms", roomId)
            /\ meOut' = Response(0, NoArg)
            /\ UNCHANGED firstPost
    /\ UNCHANGED <<meAlive, workers, meRooms, meObjs, closedRouters, meTransports,
                   meProducers, meConsumers, meNow>>
    /\ UNCHANGED sigVars

\* getOrCreateRoom after `await worker.createRouter(...)`, and the rest of the
\* handler that called it; the clock may have advanced
CreateRouterResume(p, now) ==
    /\ meAlive
    /\ p \in mePending
    /\ p.kind = "createRouter"
    /\ now \in {meNow, meNow + 1}
    /\ meNow' = now
    /\ LET room == NewRoomObj(p.room, p.obj, p.worker, now) IN
       /\ meObjs' = PutKey(meObjs, p.obj, room)
       /\ meRooms' = PutKey(meRooms, p.room, p.obj)
       /\ IF p.req = "rooms"
          THEN /\ mePending' = mePending \ {p}
               /\ meOut' = Response(201, RoomBody(room))
               /\ firstPost' = IF p.room \in DOMAIN firstPost THEN firstPost
                               ELSE PutKey(firstPost, p.room, room.createdAt)
          ELSE /\ CreateTransportCall(mePending \ {p}, p.obj)
               /\ meOut' = Response(0, NoArg)
               /\ UNCHANGED firstPost
    /\ UNCHANGED <<meAlive, workers, nextWorkerIndex, nextRouterId, closedRouters,
                   meTransports, meProducers, meConsumers>>
    /\ UNCHANGED sigVars

\* GET /rooms/{roomId} and GET /rooms/{roomId}/rtp-capabilities
GetRoom(roomId) ==
    /\ meAlive
    /\ meOut' = IF roomId \in DOMAIN meRooms
                THEN Response(200, RoomBody(meObjs[meRooms[roomId]]))
                ELSE Response(404, ErrorBody("Room not found"))
    /\ UNCHANGED <<meAlive, workers, nextWorkerIndex, meRooms, meObjs, nextRouterId,
                   closedRouters, meTransports, meProducers, meConsumers, mePending,
                   meNow, firstPost>>
    /\ UNCHANGED sigVars

\* router.close() in the SDK: the Router, its transports and their producers close.
\* No "close" listener of the handlers runs: the SDK emits "routerclose" and
\* "transportclose" on these objects, and "close" only on their observers.
SdkTransportsClosed(trs, router) ==
    [tid \in DOMAIN trs |->
        IF trs[tid].router = router THEN [trs[tid] EXCEPT !.closed = TRUE] ELSE trs[tid]]

SdkProducersClosed(prods, trs, router) ==
    [pid \in DOMAIN prods |->
        IF trs[prods[pid].transport].router = router
        THEN [prods[pid] EXCEPT !.closed = TRUE] ELSE prods[pid]]

\* DELETE /rooms/{roomId}
DeleteRoom(roomId) ==
    /\ meAlive
    /\ IF roomId \notin DOMAIN meRooms
       THEN /\ meOut' = Response(404, ErrorBody("Room not found"))
            /\ UNCHANGED <<meRooms, closedRouters, meTransports, meProducers, firstPost>>
       ELSE LET router == meObjs[meRooms[roomId]].router IN
            /\ closedRouters' = closedRouters \cup {router}
            /\ meTransports' = SdkTransportsClosed(meTransports, router)
            /\ meProducers' = SdkProducersClosed(meProducers, meTransports, router)
            /\ meRooms' = DropKey(meRooms, roomId)
            /\ firstPost' = DropKey(firstPost, roomId)
            /\ meOut' = Response(200, [ok |-> TRUE])
    /\ UNCHANGED <<meAlive, workers, nextWorkerIndex, meObjs, nextRouterId, meConsumers,
                   mePending, meNow>>
    /\ UNCHANGED sigVars

\* POST /rooms/{roomId}/transports up to its first await that suspends
PostTransportsHandler(roomId) ==
    /\ meAlive
    /\ IF RoomLookup(meRooms, roomId)
       THEN /\ Cardinality(mePending) < MaxMePending
            /\ Suspend(mePending,
                       MeP("createTransport", "transports", roomId, meRooms[roomId], 0, NoArg))
            /\ UNCHANGED <<nextWorkerIndex, nextRouterId>>
       ELSE CreateRouterCall("transports", roomId)
    /\ meOut' = Response(0, NoArg)
    /\ UNCHANGED <<meAlive, workers, meRooms, meObjs, closedRouters, meTransports,
                   meProducers, meConsumers, meNow, firstPost>>

\* the handler as a step of the media engine alone
PostTransports(roomId) ==
    /\ PostTransportsHandler(roomId)
    /\ UNCHANGED sigVars

\* a rejected SDK promise that no handler catches: no response is written, and
\* the runtime either ends the process or only warns, as its version decides
Rejected == meAlive' \in {TRUE, FALSE}

\* An SDK call made on an open Router or transport that is closed before the
\* call returns either resolves, with an object that is gone in the SDK, or
\* rejects: the handlers below take the outcome as `resolved`.

\* the transport.id the SDK gives the next transport
NextTransportId == "t" \o ToString(Cardinality(DOMAIN meTransports) + 1)

\* POST /rooms/{roomId}/transports after `await createWebRtcTransport(room.router)`
CreateTransportResume(p, resolved) ==
    /\ meAlive
    /\ p \in mePending
    /\ p.kind = "createTransport"
    /\ mePending' = mePending \ {p}
    /\ IF p.obj \in closedRouters /\ ~resolved
       THEN \* the SDK call rejects; nothing catches it and the process ends
            /\ Rejected
            /\ meOut' = Response(0, NoArg)
            /\ UNCHANGED <<meObjs, meTransports>>
       ELSE \* the SDK call resolves; a transport of a Router that was closed
            \* during the call is gone in the SDK
            /\ Cardinality(DOMAIN meTransports) < MaxTransports
            /\ meTransports' = PutKey(meTransports, NextTransportId,
                   [router |-> p.obj, closed |-> p.obj \in closedRouters,
                    connected |-> FALSE])
            /\ meObjs' = [meObjs EXCEPT ![p.obj].transports = @ \cup {NextTransportId}]
            /\ meOut' = Response(201, [id |-> NextTransportId])
            /\ UNCHANGED meAlive
    /\ UNCHANGED <<workers, nextWorkerIndex, meRooms, nextRouterId, closedRouters,
                   meProducers, meConsumers, meNow, firstPost>>
    /\ UNCHANGED sigVars

\* bodies of the producer and consumer requests
MeTransportInputs == {"t1", Undefined}
MeProducerInputs == {"p1", "p9", Undefined}
MeKindInputs == Kinds \cup {Undefined}
NoCapabilities == [present |-> FALSE, codecs |-> {}]
Capabilities(codecs) == [present |-> TRUE, codecs |-> codecs]
CapabilityInputs ==
    {NoCapabilities, Capabilities({}), Capabilities({"audio/opus"}),
     Capabilities({"audio/opus", "video/VP8"})}

\* the ids the SDK gives the next producer and the next consumer
NextMeProducerId == "p" \o ToString(Cardinality(DOMAIN meProducers) + 1)
NextConsumerId == "c" \o ToString(Cardinality(DOMAIN meConsumers) + 1)

\* a transport of the SDK that can still take requests
TransportOpen(trs, tid) == tid \in DOMAIN trs /\ ~trs[tid].closed

\* POST /rooms/{roomId}/producers and POST /rooms/{roomId}/consumers up to
\* `await parseBody(req)`; req is "producers" or "consumers"
PostMedia(req, roomId) ==
    /\ meAlive
    /\ IF roomId \notin DOMAIN meRooms
       THEN /\ meOut' = Response(404, ErrorBody("Room not found"))
            /\ UNCHANGED mePending
       ELSE /\ Cardinality(mePending) < MaxMePending
            /\ Suspend(mePending, MeP("parseBody", req, roomId, meRooms[roomId], 0, NoArg))
            /\ meOut' = Response(0, NoArg)
    /\ UNCHANGED <<meAlive, workers, nextWorkerIndex, meRooms, meObjs, nextRouterId,
                   closedRouters, meTransports, meProducers, meConsumers, meNow, firstPost>>
    /\ UNCHANGED sigVars

PostProducers(roomId) == PostMedia("producers", roomId)

PostConsumers(roomId) == PostMedia("consumers", roomId)

\* mutant of RoomTransport: the transport is looked up among those of all rooms
RoomTransport_AnyRoom(room, transportId) == transportId \in DOMAIN meTransports

\* `room.transports.get(body?.transportId)` finds a transport
RoomTransport(room, transportId) == transportId \in room.transports

\* POST /rooms/{roomId}/producers after parseBody, up to `await transport.produce(...)`
PostProducersParsed(p, transportIn, kindIn) ==
    /\ meAlive
    /\ p \in mePending
    /\ p.kind = "parseBody"
    /\ p.req = "producers"
    /\ IF ~RoomTransport(meObjs[p.obj], transportIn)
       THEN /\ meOut' = Response(404, ErrorBody("Transport not found"))
            /\ mePending' = mePending \ {p}
       ELSE /\ meOut' = Response(0, NoArg)
            /\ Suspend(mePending \ {p},
                       MeP("produce", p.req, p.room, p.obj, 0,
                           [transport |-> transportIn, kind |-> kindIn,
                            open |-> TransportOpen(meTransports, transportIn)]))
    /\ UNCHANGED <<meAlive, workers, nextWorkerIndex, meRooms, meObjs, nextRouterId,
                   closedRouters, meTransports, meProducers, meConsumers, meNow, firstPost>>
    /\ UNCHANGED sigVars

\* POST /rooms/{roomId}/producers after `await transport.produce(...)`
PostProducersResume(p, resolved) ==
    /\ meAlive
    /\ p \in mePending
    /\ p.kind = "produce"
    /\ mePending' = mePending \ {p}
    /\ IF \/ ~p.arg.open
          \/ p.arg.kind \notin Kinds
          \/ ~TransportOpen(meTransports, p.arg.transport) /\ ~resolved
       THEN \* transport.produce rejects: the transport was closed when it was
            \* called, or the kind is invalid, or the transport closed meanwhile
            /\ Rejected
            /\ meOut' = Response(0, NoArg)
            /\ UNCHANGED <<meObjs, meProducers>>
       ELSE /\ Cardinality(DOMAIN meProducers) < MaxMeProducers
            /\ meProducers' = PutKey(meProducers, NextMeProducerId,
                   [transport |-> p.arg.transport, kind |-> p.arg.kind,
                    closed |-> ~TransportOpen(meTransports, p.arg.transport)])
            /\ meObjs' = [meObjs EXCEPT ![p.obj].producers = @ \cup {NextMeProducerId}]
            /\ meOut' = Response(201, [id |-> NextMeProducerId, kind |-> p.arg.kind])
            /\ UNCHANGED meAlive
    /\ UNCHANGED <<workers, nextWorkerIndex, meRooms, nextRouterId, closedRouters,
                   meTransports, meConsumers, meNow, firstPost>>
    /\ UNCHANGED sigVars

\* mutant of canConsume: every request is taken as consumable
canConsume_Always(prods, trs, router, producerId, rtpCapabilities) == TRUE

\* router.canConsume({ producerId, rtpCapabilities }): the Router has the producer
\* and the receiver's capabilities hold the codec of the producer's kind
canConsume(prods, trs, router, producerId, rtpCapabilities) ==
    /\ producerId \in DOMAIN prods
    /\ ~prods[producerId].closed
    /\ trs[prods[producerId].transport].router = router
    /\ CodecOf(prods[producerId].kind) \in rtpCapabilities.codecs

\* POST /rooms/{roomId}/consumers after parseBody, up to `await transport.consume(...)`
PostConsumersParsed(p, transportIn, producerIn, capsIn) ==
    /\ meAlive
    /\ p \in mePending
    /\ p.kind = "parseBody"
    /\ p.req = "consumers"
    /\ IF transportIn \notin meObjs[p.obj].transports
       THEN /\ meOut' = Response(404, ErrorBody("Transport not found"))
            /\ mePending' = mePending \ {p}
       ELSE IF producerIn = Undefined \/ ~capsIn.present
       THEN /\ meOut' = Response(400, ErrorBody("Missing producerId or rtpCapabilities"))
            /\ mePending' = mePending \ {p}
       ELSE IF ~canConsume(meProducers, meTransports, meObjs[p.obj].router, producerIn, capsIn)
       THEN /\ meOut' = Response(400, ErrorBody("Cannot consume"))
            /\ mePending' = mePending \ {p}
       ELSE /\ meOut' = Response(0, NoArg)
            /\ Suspend(mePending \ {p},
                       MeP("consume", p.req, p.room, p.obj, 0,
                           [transport |-> transportIn, producerId |-> producerIn]))
    /\ UNCHANGED <<meAlive, workers, nextWorkerIndex, meRooms, meObjs, nextRouterId,
                   closedRouters, meTransports, meProducers, meConsumers, meNow, firstPost>>
    /\ UNCHANGED sigVars

\* POST /rooms/{roomId}/consumers after `await transport.consume(...)`
PostConsumersResume(p) ==
    /\ meAlive
    /\ p \in mePending
    /\ p.kind = "consume"
    /\ mePending' = mePending \ {p}
    /\ IF \/ ~TransportOpen(meTransports, p.arg.transport)
          \/ p.arg.producerId \notin DOMAIN meProducers
          \/ meProducers[p.arg.producerId].closed
       THEN /\ Rejected
            /\ meOut' = Response(0, NoArg)
            /\ UNCHANGED meConsumers
       ELSE LET kind == meProducers[p.arg.producerId].kind IN
            /\ Cardinality(DOMAIN meConsumers) < MaxConsumers
            /\ meConsumers' = PutKey(meConsumers, NextConsumerId,
                   [transport |-> p.arg.transport, producerId |-> p.arg.producerId,
                    kind |-> kind])
            /\ meOut' = Response(201,
                   [id |-> NextConsumerId, producerId |-> p.arg.producerId, kind |-> kind,
                    rtpParameters |-> [codec |-> CodecOf(kind)]])
            /\ UNCHANGED meAlive
    /\ UNCHANGED <<workers, nextWorkerIndex, meRooms, meObjs, nextRouterId, closedRouters,
                   meTransports, meProducers, meNow, firstPost>>
    /\ UNCHANGED sigVars

\* POST /rooms/{roomId}/transports/{transportId}/connect up to `await parseBody(req)`
PostConnect(roomId, transportId) ==
    /\ meAlive
    /\ IF roomId \notin DOMAIN meRooms
       THEN /\ meOut' = Response(404, ErrorBody("Room not found"))
            /\ UNCHANGED mePending
       ELSE IF transportId \notin meObjs[meRooms[roomId]].transports
       THEN /\ meOut' = Response(404, ErrorBody("Transport not found"))
            /\ UNCHANGED mePending
       ELSE /\ Cardinality(mePending) < MaxMePending
            /\ Suspend(mePending, MeP("parseBody", "connect", roomId, meRooms[roomId], 0,
                                      [transport |-> transportId]))
            /\ meOut' = Response(0, NoArg)
    /\ UNCHANGED <<meAlive, workers, nextWorkerIndex, meRooms, meObjs, nextRouterId,
                   closedRouters, meTransports, meProducers, meConsumers, meNow, firstPost>>
    /\ UNCHANGED sigVars

\* the dtlsParameters a connect body can carry; a body that is absent or is
\* not JSON makes `body?.dtlsParameters` undefined as well
DtlsInputs == {"dtls", Undefined}

\* mutant of MissingDtls: no body is taken as lacking dtlsParameters
MissingDtls_Never(dtlsIn) == FALSE

\* `!body?.dtlsParameters`
MissingDtls(dtlsIn) == dtlsIn = Undefined

\* the connect request after parseBody, up to `await transport.connect(...)`
PostConnectParsed(p, dtlsIn) ==
    /\ meAlive
    /\ p \in mePending
    /\ p.kind = "parseBody"
    /\ p.req = "connect"
    /\ IF MissingDtls(dtlsIn)
       THEN /\ meOut' = Response(400, ErrorBody("Missing dtlsParameters"))
            /\ mePending' = mePending \ {p}
       ELSE /\ meOut' = Response(0, NoArg)
            /\ Suspend(mePending \ {p},
                       MeP("connect", p.req, p.room, p.obj, 0,
                           [transport |-> p.arg.transport,
                            open |-> TransportOpen(meTransports, p.arg.transport)]))
    /\ UNCHANGED <<meAlive, workers, nextWorkerIndex, meRooms, meObjs, nextRouterId,
                   closedRouters, meTransports, meProducers, meConsumers, meNow, firstPost>>
    /\ UNCHANGED sigVars

\* the connect request after `await transport.connect(...)`. The call rejects on
\* a transport that was closed when it was called or that was connected before
PostConnectResume(p, resolved) ==
    /\ meAlive
    /\ p \in mePending
    /\ p.kind = "connect"
    /\ mePending' = mePending \ {p}
    /\ LET tr == meTransports[p.arg.transport] IN
       IF tr.connected \/ ~p.arg.open \/ (tr.closed /\ ~resolved)
       THEN /\ Rejected
            /\ meOut' = Response(0, NoArg)
            /\ UNCHANGED meTransports
       ELSE /\ meTransports' = [meTransports EXCEPT ![p.arg.transport].connected = TRUE]
            /\ meOut' = Response(200, [ok |-> TRUE])
            /\ UNCHANGED meAlive
    /\ UNCHANGED <<workers, nextWorkerIndex, meRooms, meObjs, nextRouterId, closedRouters,
                   meProducers, meConsumers, meNow, firstPost>>
    /\ UNCHANGED sigVars

\* mutant of WorkerDied: the dead worker leaves the pool and the process runs on
WorkerDied_Failover(w) ==
    /\ meAlive
    /\ w \in SeqToSet(workers)
    /\ workers' = RemoveFromSeq(workers, w)
    /\ UNCHANGED <<meAlive, nextWorkerIndex, meRooms, meObjs, nextRouterId, closedRouters,
                   meTransports, meProducers, meConsumers, mePending, meNow, firstPost,
                   meOut>>
    /\ UNCHANGED sigVars

\* worker.on("died"): a worker of the pool reports its death; process.exit(1)
WorkerDied(w) ==
    /\ meAlive
    /\ w \in SeqToSet(workers)
    /\ meAlive' = FALSE
    /\ UNCHANGED <<workers, nextWorkerIndex, meRooms, meObjs, nextRouterId, closedRouters,
                   meTransports, meProducers, meConsumers, mePending, meNow, firstPost,
                   meOut>>
    /\ UNCHANGED sigVars

\* the media engine after createWorkers
MeInit ==
    /\ meAlive = TRUE
    /\ workers = [i \in 1..PoolSize(WorkerCount) |-> i - 1]
    /\ nextWorkerIndex = 0
    /\ meRooms = <<>>
    /\ meObjs = <<>>
    /\ nextRouterId = 1
    /\ closedRouters = {}
    /\ meTransports = <<>>
    /\ meProducers = <<>>
    /\ meConsumers = <<>>
    /\ mePending = {}
    /\ meNow = 1
    /\ firstPost = <<>>
    /\ meOut = Response(0, NoArg)

\* ------------------------------------------------ signaling specification
InitOut == Out(<<>>, "none", NoData)

\* a freshly started signaling process with two connected sockets
SigInit ==
    /\ sockAuth = [s \in Sockets |-> IF authRequired THEN "pending" ELSE "none"]
    /\ connected = [s \in Sockets |-> TRUE]
    /\ sioRooms = [s \in Sockets |-> <<>>]
    /\ rooms = <<>>
    /\ sigPending = {}
    /\ nextProducerId = 1
    /\ nextMsgId = 1
    /\ chatLog = [r \in RoomIds |-> <<>>]
    /\ sigOut = InitOut

\* AUTH_REQUIRED unset (its default), MEDIA_WORKER_URL set or not
Init ==
    /\ authRequired = FALSE
    /\ mediaWorkerUrl \in BOOLEAN
    /\ SigInit
    /\ MeInit

\* presence and produce in one room
PresenceRooms == {"r1", " r1 ", Undefined}

Next ==
    \/ \E s \in Sockets, r \in PresenceRooms, ident \in JoinIdentities : RoomJoin(s, r, ident)
    \/ \E p \in sigPending, caps \in {"caps", "none"} : RoomJoinResume(p, caps)
    \/ \E s \in Sockets, r \in PresenceRooms : RoomLeave(s, r)
    \/ \E s \in Sockets : Disconnecting(s)
    \/ \E s \in Sockets, r \in PresenceRooms, t \in TransportInputs : Produce(s, r, t, "video")
    \/ \E p \in sigPending : ProduceResumeOk(p)
    \/ \E p \in sigPending : ProduceResumeFail(p, "Transport not found")

Spec == Init /\ [][Next]_vars

\* ------------------------------------------------ announce specification
\* joins, departures and produce requests for room r1, a media engine being
\* configured
\* a join payload that names its user
NamedIdentity == [userId |-> " u1 ", displayName |-> "Ann", role |-> "host"]

InitAnnounce ==
    /\ authRequired = FALSE
    /\ mediaWorkerUrl = TRUE
    /\ SigInit
    /\ MeInit

NextAnnounce ==
    \/ \E s \in Sockets : RoomJoin(s, "r1", NamedIdentity)
    \/ \E p \in sigPending, caps \in {"caps", "none"} : RoomJoinResume(p, caps)
    \/ \E s \in Sockets : RoomLeave(s, "r1")
    \/ \E s \in Sockets : Disconnecting(s)
    \/ \E s \in Sockets : Produce(s, "r1", "t1", "video")
    \/ \E p \in sigPending : ProduceResumeOk(p)
    \/ \E p \in sigPending : ProduceResumeFail(p, "Transport not found")

SpecAnnounce == InitAnnounce /\ [][NextAnnounce]_vars

\* ----------------------------------------------------- chat specification
\* A room in mid-session: socket s1 has joined r1 without identity fields, the
\* capabilities were fetched, s1 has produced once and has sent ChatPrefill
\* messages; socket s2 is connected.
AnonIdentity == [userId |-> Undefined, displayName |-> Blank, role |-> "admin"]

ChatHost ==
    NewParticipant("s1", sanitizeText(AnonIdentity.userId, "s1"),
                   sanitizeText(AnonIdentity.displayName, sanitizeText(AnonIdentity.userId, "s1")),
                   sanitizeRole(AnonIdentity.role))

RECURSIVE PrefillMessages(_)
PrefillMessages(n) ==
    IF n = 0 THEN <<>>
    ELSE AppendMessage(PrefillMessages(n - 1), NewMessage(n, "r1", ChatHost, "hi"))

RECURSIVE PrefillLog(_)
PrefillLog(n) ==
    IF n = 0 THEN <<>>
    ELSE Append(PrefillLog(n - 1), NewMessage(n, "r1", ChatHost, "hi"))

ChatRoom0 ==
    LET joined == ("r1" :> [EmptyRoom EXCEPT !.participants = PutKey(@, "s1", ChatHost),
                                             !.rtpCapabilities = "caps"])
        produced == ProduceState(joined, "s1", "r1", [id |-> 1, kind |-> "video"])
    IN [produced EXCEPT !["r1"].messages = PrefillMessages(ChatPrefill)]

InitChat ==
    /\ authRequired = FALSE
    /\ mediaWorkerUrl = TRUE
    /\ sockAuth = [s \in Sockets |-> "none"]
    /\ connected = [s \in Sockets |-> TRUE]
    /\ sioRooms = [s \in Sockets |-> IF s = "s1" THEN <<"r1">> ELSE <<>>]
    /\ rooms = ChatRoom0
    /\ sigPending = {}
    /\ nextProducerId = 2
    /\ nextMsgId = ChatPrefill + 1
    /\ chatLog = [r \in RoomIds |-> IF r = "r1" THEN PrefillLog(ChatPrefill) ELSE <<>>]
    /\ sigOut = InitOut
    /\ MeInit

ChatRooms == {"r1", "r2", Undefined}

NextChat ==
    \/ \E s \in Sockets, ident \in JoinIdentities : RoomJoin(s, "r1", ident)
    \/ \E s \in Sockets : RoomLeave(s, "r1")
    \/ \E s \in Sockets : Disconnecting(s)
    \/ \E s \in Sockets, r \in ChatRooms, text \in TextInputs : RoomMessage(s, r, text)

SpecChat == InitChat /\ [][NextChat]_vars

\* -------------------------------------------- request specification
\* The same room in mid-session when no media engine is configured: socket s1
\* has joined r1 and sent ChatPrefill messages; nothing was fetched or produced.
NoEngineRoom0 ==
    ("r1" :> [EmptyRoom EXCEPT !.participants = PutKey(@, "s1", ChatHost),
                               !.messages = PrefillMessages(ChatPrefill)])

InitReq ==
    /\ authRequired = FALSE
    /\ mediaWorkerUrl \in BOOLEAN
    /\ sockAuth = [s \in Sockets |-> "none"]
    /\ connected = [s \in Sockets |-> TRUE]
    /\ sioRooms = [s \in Sockets |-> IF s = "s1" THEN <<"r1">> ELSE <<>>]
    /\ rooms = IF mediaWorkerUrl THEN ChatRoom0 ELSE NoEngineRoom0
    /\ sigPending = {}
    /\ nextProducerId = IF mediaWorkerUrl THEN 2 ELSE 1
    /\ nextMsgId = ChatPrefill + 1
    /\ chatLog = [r \in RoomIds |-> IF r = "r1" THEN PrefillLog(ChatPrefill) ELSE <<>>]
    /\ sigOut = InitOut
    /\ MeInit

\* the roomId values of the requests: a room, and the field missing
ReqRooms == {"r1", Undefined}

\* the socket that sends the media requests
ReqSockets == {"s1"}

NextReq ==
    \/ \E s \in Sockets, r \in ReqRooms : RoomJoin(s, r, AnonIdentity)
    \/ \E s \in ReqSockets, r \in ReqRooms : CreateTransport(s, r)
    \/ \E s \in ReqSockets, r \in ReqRooms, tr \in TransportInputs : ConnectTransport(s, r, tr)
    \/ \E s \in ReqSockets, r \in ReqRooms, tr \in TransportInputs : Produce(s, r, tr, "video")
    \/ \E s \in ReqSockets, r \in ReqRooms, tr \in TransportInputs, pr \in ProducerInputs :
          Consume(s, r, tr, pr)
    \/ \E p \in sigPending : CallResumeOk(p)
    \/ \E p \in sigPending, e \in WorkerErrors : CallResumeFail(p, e)
    \/ \E p \in sigPending : ProduceResumeOk(p)
    \/ \E p \in sigPending, e \in WorkerErrors : ProduceResumeFail(p, e)
    \/ \E s \in Sockets, r \in ReqRooms, text \in TextInputs : RoomMessage(s, r, text)

SpecReq == InitReq /\ [][NextReq]_vars

\* ------------------------------------------ acknowledgment specification
\* The room in mid-session with the media engine configured, the capability
\* fetch of the first join having returned null: every join of r1 fetches again.
InitAck ==
    /\ authRequired = FALSE
    /\ mediaWorkerUrl = TRUE
    /\ sockAuth = [s \in Sockets |-> "none"]
    /\ connected = [s \in Sockets |-> TRUE]
    /\ sioRooms = [s \in Sockets |-> IF s = "s1" THEN <<"r1">> ELSE <<>>]
    /\ rooms = [ChatRoom0 EXCEPT !["r1"].rtpCapabilities = "none"]
    /\ sigPending = {}
    /\ nextProducerId = 2
    /\ nextMsgId = ChatPrefill + 1
    /\ chatLog = [r \in RoomIds |-> IF r = "r1" THEN PrefillLog(ChatPrefill) ELSE <<>>]
    /\ sigOut = InitOut
    /\ MeInit

\* a suspended handler resumes: its fetch has settled, with a response, a
\* connection error or the HTTP client's timeout
SigResume(p) ==
    \/ \E caps \in {"caps", "none"} : RoomJoinResume(p, caps)
    \/ CallResumeOk(p)
    \/ ProduceResumeOk(p)
    \/ \E e \in WorkerErrors : CallResumeFail(p, e) \/ ProduceResumeFail(p, e)

\* every record a suspended handler of this specification can be
AckPendings ==
    {JoinPending(s, "r1") : s \in ReqSockets}
    \cup {CallPending(s, k, "r1") : s \in ReqSockets, k \in CallKinds}
    \cup {ProducePending(s, "r1", "video") : s \in ReqSockets}

NextAck ==
    \/ \E s \in ReqSockets, r \in ReqRooms : RoomJoin(s, r, AnonIdentity)
    \/ \E s \in ReqSockets, r \in ReqRooms : CreateTransport(s, r)
    \/ \E s \in ReqSockets, r \in ReqRooms, tr \in TransportInputs : ConnectTransport(s, r, tr)
    \/ \E s \in ReqSockets, r \in ReqRooms, tr \in TransportInputs : Produce(s, r, tr, "video")
    \/ \E s \in ReqSockets, r \in ReqRooms, tr \in TransportInputs, pr \in ProducerInputs :
          Consume(s, r, tr, pr)
    \/ \E s \in ReqSockets, r \in ReqRooms, text \in TextInputs : RoomMessage(s, r, text)
    \/ \E p \in sigPending : SigResume(p)

\* every fetch settles, so every suspended handler is resumed
SpecAck ==
    InitAck /\ [][NextAck]_vars /\ \A p \in AckPendings : WF_vars(SigResume(p))

\* ------------------------------------------------ raise-hand specification
InitHand ==
    /\ authRequired = FALSE
    /\ mediaWorkerUrl = TRUE
    /\ SigInit
    /\ MeInit

HandRooms == {"r1", "r2", Undefined}

NextHand ==
    \/ \E s \in Sockets : RoomJoin(s, "r1", AnonIdentity)
    \/ \E p \in sigPending, caps \in {"caps", "none"} : RoomJoinResume(p, caps)
    \/ \E s \in Sockets : RoomLeave(s, "r1")
    \/ \E s \in Sockets, r \in HandRooms, v \in HandInputs : RoomRaiseHand(s, r, v)
    \/ \E s \in Sockets : Produce(s, "r1", "t1", "video")
    \/ \E p \in sigPending : ProduceResumeOk(p)

SpecHand == InitHand /\ [][NextHand]_vars

\* ------------------------------------------- room registry specification
\* the media engine alone, serving room and transport creation
InitME ==
    /\ authRequired = FALSE
    /\ mediaWorkerUrl = TRUE
    /\ SigInit
    /\ MeInit

\* the room ids the requests of this specification name
MeRooms1 == {"r1"}

NextME ==
    \/ \E r \in MeRooms1 \cup {Undefined} : PostRooms(r)
    \/ \E p \in mePending, now \in {meNow, meNow + 1} : CreateRouterResume(p, now)
    \/ \E r \in MeRooms1 : GetRoom(r)
    \/ \E r \in MeRooms1 : DeleteRoom(r)
    \/ \E r \in MeRooms1 : PostTransports(r)
    \/ \E p \in mePending, resolved \in BOOLEAN : CreateTransportResume(p, resolved)

SpecME == InitME /\ [][NextME]_vars

\* --------------------------------------------- worker pool specification
\* room creation on every path that reaches getOrCreateRoom, at one clock value
NextPool ==
    \/ \E r \in MeRoomIds \cup {Undefined} : PostRooms(r)
    \/ \E p \in mePending : CreateRouterResume(p, meNow)
    \/ \E r \in MeRoomIds : DeleteRoom(r)
    \/ \E r \in MeRooms1 : PostTransports(r)
    \/ \E p \in mePending, resolved \in BOOLEAN : CreateTransportResume(p, resolved)

SpecPool == InitME /\ [][NextPool]_vars

\* --------------------------------------------- worker death specification
\* room and transport requests for one room, and the death of a worker
NextLife ==
    \/ \E r \in MeRooms1 : PostRooms(r)
    \/ \E p \in mePending : CreateRouterResume(p, meNow)
    \/ \E r \in MeRooms1 : GetRoom(r)
    \/ \E r \in MeRooms1 : DeleteRoom(r)
    \/ \E r \in MeRooms1 : PostTransports(r)
    \/ \E p \in mePending, resolved \in BOOLEAN : CreateTransportResume(p, resolved)
    \/ \E w \in SeqToSet(workers) : WorkerDied(w)

SpecLife == InitME /\ [][NextLife]_vars

\* ------------------------------------------- media plane specification
\* room "r1" is registered and a transport was created on it
MediaRoom0 ==
    [NewRoomObj("r1", 1, getNextWorker(workers, 0), 1) EXCEPT !.transports = {"t1"}]

InitMedia ==
    /\ authRequired = FALSE
    /\ mediaWorkerUrl = TRUE
    /\ SigInit
    /\ meAlive = TRUE
    /\ workers = [i \in 1..PoolSize(WorkerCount) |-> i - 1]
    /\ nextWorkerIndex = 1
    /\ meRooms = [r \in {"r1"} |-> 1]
    /\ meObjs = <<MediaRoom0>>
    /\ nextRouterId = 2
    /\ closedRouters = {}
    /\ meTransports = [tid \in {"t1"} |->
                          [router |-> 1, closed |-> FALSE, connected |-> FALSE]]
    /\ meProducers = <<>>
    /\ meConsumers = <<>>
    /\ mePending = {}
    /\ meNow = 1
    /\ firstPost = <<>>
    /\ meOut = Response(201, [id |-> "t1"])

NextMedia ==
    \/ \E r \in MeRooms1 : PostProducers(r)
    \/ \E p \in mePending, tr \in MeTransportInputs, k \in MeKindInputs :
          PostProducersParsed(p, tr, k)
    \/ \E p \in mePending, resolved \in BOOLEAN : PostProducersResume(p, resolved)
    \/ \E r \in MeRooms1 : PostConsumers(r)
    \/ \E p \in mePending, tr \in MeTransportInputs, pr \in MeProducerInputs,
          caps \in CapabilityInputs : PostConsumersParsed(p, tr, pr, caps)
    \/ \E p \in mePending : PostConsumersResume(p)
    \/ \E r \in MeRooms1 : DeleteRoom(r)

SpecMedia == InitMedia /\ [][NextMedia]_vars

\* ------------------------------------------- transport connect specification
\* connect requests for the transport of room r1, for a transport id and a
\* room id that do not exist, and the closing of the room
ConnectTransports == {"t1", "t2", "t9"}

NextConnect ==
    \/ \E r \in MeRoomIds, t \in ConnectTransports : PostConnect(r, t)
    \/ \E p \in mePending, d \in DtlsInputs : PostConnectParsed(p, d)
    \/ \E p \in mePending, resolved \in BOOLEAN : PostConnectResume(p, resolved)
    \/ \E r \in MeRooms1 : PostTransports(r)
    \/ \E p \in mePending : CreateRouterResume(p, meNow)
    \/ \E p \in mePending, resolved \in BOOLEAN : CreateTransportResume(p, resolved)
    \/ \E r \in MeRooms1 : GetRoom(r)
    \/ \E r \in MeRooms1 : DeleteRoom(r)

SpecConnect == InitMedia /\ [][NextConnect]_vars

\* ------------------------------------------------ producer specification
\* rooms r1 and r2 are registered, each with one transport; producer requests
\* name either room or a room that is not registered, and any transport
ProduceRoom0(roomId, router, transportId) ==
    [NewRoomObj(roomId, router, getNextWorker(workers, router - 1), 1)
        EXCEPT !.transports = {transportId}]

InitProduce ==
    /\ authRequired = FALSE
    /\ mediaWorkerUrl = TRUE
    /\ SigInit
    /\ meAlive = TRUE
    /\ workers = [i \in 1..PoolSize(WorkerCount) |-> i - 1]
    /\ nextWorkerIndex = 2
    /\ meRooms = [r \in {"r1", "r2"} |-> IF r = "r1" THEN 1 ELSE 2]
    /\ meObjs = <<ProduceRoom0("r1", 1, "t1"), ProduceRoom0("r2", 2, "t2")>>
    /\ nextRouterId = 3
    /\ closedRouters = {}
    /\ meTransports = [tid \in {"t1", "t2"} |->
                          [router |-> IF tid = "t1" THEN 1 ELSE 2, closed |-> FALSE,
                           connected |-> FALSE]]
    /\ meProducers = <<>>
    /\ meConsumers = <<>>
    /\ mePending = {}
    /\ meNow = 1
    /\ firstPost = <<>>
    /\ meOut = Response(201, [id |-> "t2"])

ProduceRooms == {"r1", "r2", "r3"}
ProduceTransports == {"t1", "t2", Undefined}

NextProduce ==
    \/ \E r \in ProduceRooms : PostProducers(r)
    \/ \E p \in mePending, tr \in ProduceTransports, k \in Kinds :
          PostProducersParsed(p, tr, k)
    \/ \E p \in mePending, resolved \in BOOLEAN : PostProducersResume(p, resolved)
    \/ \E r \in ProduceRooms : DeleteRoom(r)

SpecProduce == InitProduce /\ [][NextProduce]_vars

\* ------------------------------------------- transport relay specification
\* Both processes: socket s1 has joined r1, the capability fetch has created r1
\* in the media engine. s1 asks for send transports of r1, one request at a
\* time; each call of the signaling process is received by the media engine.
RelayRoom0 ==
    ("r1" :> [EmptyRoom EXCEPT !.participants = PutKey(@, "s1", ChatHost),
                               !.rtpCapabilities = "caps"])

InitRelay ==
    /\ authRequired = FALSE
    /\ mediaWorkerUrl = TRUE
    /\ sockAuth = [s \in Sockets |-> "none"]
    /\ connected = [s \in Sockets |-> TRUE]
    /\ sioRooms = [s \in Sockets |-> IF s = "s1" THEN <<"r1">> ELSE <<>>]
    /\ rooms = RelayRoom0
    /\ sigPending = {}
    /\ nextProducerId = 1
    /\ nextMsgId = 1
    /\ chatLog = [r \in RoomIds |-> <<>>]
    /\ sigOut = Out(<<Emit("room:rtp-capabilities", {"s1"}, [rtpCapabilities |-> "caps"])>>,
                    "ok", NoData)
    /\ meAlive = TRUE
    /\ workers = [i \in 1..PoolSize(WorkerCount) |-> i - 1]
    /\ nextWorkerIndex = 1
    /\ meRooms = [r \in {"r1"} |-> 1]
    /\ meObjs = <<NewRoomObj("r1", 1, getNextWorker(workers, 0), 1)>>
    /\ nextRouterId = 2
    /\ closedRouters = {}
    /\ meTransports = <<>>
    /\ meProducers = <<>>
    /\ meConsumers = <<>>
    /\ mePending = {}
    /\ meNow = 1
    /\ firstPost = [r \in {"r1"} |-> 1]
    /\ meOut = Response(201, RoomBody(NewRoomObj("r1", 1, getNextWorker(workers, 0), 1)))

\* the payloads of s1's mediasoup:create-transport requests
SendPayloads == {[roomId |-> "r1", direction |-> "send"]}

\* mediasoup:create-transport up to its call, and the media engine's handler of
\* that call up to its await: the call is POST /rooms/{roomId}/transports
\* without a body
RelayCreateTransport(s, payload) ==
    LET roomId == sanitizeText(payload.roomId, "")
    IN /\ roomId # ""
       /\ sigPending = {}
       /\ CallHandler(s, "create-transport", roomId, "")
       /\ PostTransportsHandler(roomId)

\* the call returns to the signaling process once the media engine has
\* answered it, and fails when the media engine's handler ended without answer
RelayReturn(p) ==
    /\ mePending = {}
    /\ \/ meOut.status = 201 /\ CallResumeOk(p)
       \/ meOut.status = 0 /\ CallResumeFail(p, "Media worker request failed")

NextRelay ==
    \/ \E payload \in SendPayloads : RelayCreateTransport("s1", payload)
    \/ \E p \in mePending : CreateRouterResume(p, meNow)
    \/ \E p \in mePending, resolved \in BOOLEAN : CreateTransportResume(p, resolved)
    \/ \E p \in sigPending : RelayReturn(p)
    \/ \E s \in Sockets : RoomJoin(s, "r1", AnonIdentity)
    \/ \E s \in Sockets : RoomLeave(s, "r1")
    \/ \E r \in MeRooms1 : GetRoom(r)
    \/ \E r \in MeRooms1 : DeleteRoom(r)

SpecRelay == InitRelay /\ [][NextRelay]_vars

\* ------------------------------------------------ teardown specification
\* Both processes in mid-session. Signaling: socket s1 has joined r1 and owns
\* producer 1, the capability fetch having returned null. Media engine: room r1
\* with the transport t1 and the producer p1 created for s1's requests.
TeardownRoom0 ==
    [MediaRoom0 EXCEPT !.producers = {"p1"}]

InitTeardown ==
    /\ authRequired = FALSE
    /\ mediaWorkerUrl = TRUE
    /\ sockAuth = [s \in Sockets |-> "none"]
    /\ connected = [s \in Sockets |-> TRUE]
    /\ sioRooms = [s \in Sockets |-> IF s = "s1" THEN <<"r1">> ELSE <<>>]
    /\ rooms = [ChatRoom0 EXCEPT !["r1"].rtpCapabilities = "none"]
    /\ sigPending = {}
    /\ nextProducerId = 2
    /\ nextMsgId = ChatPrefill + 1
    /\ chatLog = [r \in RoomIds |-> IF r = "r1" THEN PrefillLog(ChatPrefill) ELSE <<>>]
    /\ sigOut = InitOut
    /\ meAlive = TRUE
    /\ workers = [i \in 1..PoolSize(WorkerCount) |-> i - 1]
    /\ nextWorkerIndex = 1
    /\ meRooms = [r \in {"r1"} |-> 1]
    /\ meObjs = <<TeardownRoom0>>
    /\ nextRouterId = 2
    /\ closedRouters = {}
    /\ meTransports = [tid \in {"t1"} |->
                          [router |-> 1, closed |-> FALSE, connected |-> FALSE]]
    /\ meProducers = [pid \in {"p1"} |->
                         [transport |-> "t1", kind |-> "video", closed |-> FALSE]]
    /\ meConsumers = <<>>
    /\ mePending = {}
    /\ meNow = 1
    /\ firstPost = [r \in {"r1"} |-> 1]
    /\ meOut = Response(201, [id |-> "p1", kind |-> "video"])

NextTeardown ==
    \/ \E s \in Sockets : RoomJoin(s, "r1", AnonIdentity)
    \/ \E p \in sigPending, caps \in {"caps", "none"} : RoomJoinResume(p, caps)
    \/ \E s \in Sockets : RoomLeave(s, "r1")
    \/ \E s \in Sockets : Disconnecting(s)
    \/ \E r \in MeRooms1 : GetRoom(r)
    \/ \E r \in MeRooms1 : DeleteRoom(r)

\* every capability fetch settles, so every suspended join is resumed; nothing
\* obliges a client or an operator to send a request
SpecTeardown ==
    /\ InitTeardown
    /\ [][NextTeardown]_vars
    /\ \A s \in Sockets :
          WF_vars(\E caps \in {"caps", "none"} : RoomJoinResume(JoinPending(s, "r1"), caps))

\* ------------------------------------------------------------------ claims

\* C1: when a participant's room:leave or disconnect is processed, the producer
\* ids removed from the room's producer index are exactly the ids its participant
\* record lists; every other index entry is kept as it was; and exactly one
\* room:producer-removed is emitted per removed id, each to the remaining
\* participants of that room, and none for any other producer.
C1_DepartureRemovesOwnProducers ==
    [][\A s \in Sockets, r \in RoomIds :
         LET departs == \/ \E rin \in PresenceRooms :
                              sanitizeText(rin, "") = r /\ RoomLeave(s, rin)
                        \/ Disconnecting(s) /\ r \in SeqToSet(sioRooms[s])
         IN (departs /\ r \in DOMAIN rooms /\ s \in DOMAIN rooms[r].participants) =>
            LET owned == SeqToSet(rooms[r].participants[s].producerIds)
                remaining == DOMAIN rooms[r].participants \ {s}
                removed == DOMAIN rooms[r].producers \ DOMAIN rooms'[r].producers
                removedAnywhere ==
                    UNION {DOMAIN rooms[q].producers \ DOMAIN rooms'[q].producers :
                           q \in DOMAIN rooms}
                emits == sigOut'.emits
                events == {i \in 1..Len(emits) : emits[i].ev = "room:producer-removed"}
            IN /\ removed = owned
               /\ \A id \in DOMAIN rooms'[r].producers :
                     /\ id \in DOMAIN rooms[r].producers
                     /\ rooms'[r].producers[id] = rooms[r].producers[id]
               /\ \A id \in removed :
                     Cardinality({i \in events : emits[i].data.producerId = id}) = 1
               /\ \A i \in events :
                     /\ emits[i].data.producerId \in removedAnywhere
                     /\ emits[i].data.producerId \in removed => emits[i].to = remaining
      ]_vars

\* a departure has just removed a producer, told a remaining participant about it,
\* and left another participant's producer in the index
C1_Witness ==
    /\ \E i \in 1..Len(sigOut.emits) :
          /\ sigOut.emits[i].ev = "room:producer-removed"
          /\ sigOut.emits[i].to # {}
    /\ \E r \in DOMAIN rooms : DOMAIN rooms[r].producers # {}

\* C2: for every room at most one capability fetch is outstanding at any time
\* (a join suspended at the fetch is an outstanding fetch for its room).
C2_AtMostOneFetchOutstanding ==
    \A r \in RoomIds :
        Cardinality({p \in sigPending : p.kind = "join" /\ p.room = r}) <= 1

\* C6: on a valid room:join by connection s, s is sent one roster that holds the
\* record of every other current participant of the room and not its own, with
\* the room's chat history and producer summaries; every other connection in the
\* room, and not s, is sent room:peer-joined carrying s's new record.
C6_JoinRosterAndPeerJoined ==
    [][\A s \in Sockets, rin \in RoomInputs, ident \in JoinIdentities :
         LET r == sanitizeText(rin, "") IN
         (RoomJoin(s, rin, ident) /\ r # "" /\ ~(authRequired /\ sockAuth[s] # "ok")) =>
            LET before == IF r \in DOMAIN rooms THEN rooms[r] ELSE EmptyRoom
                others == DOMAIN before.participants \ {s}
                emits == sigOut'.emits
                rosters == {i \in 1..Len(emits) : emits[i].ev = "room:roster"}
                joined == {i \in 1..Len(emits) : emits[i].ev = "room:peer-joined"}
            IN /\ Cardinality(rosters) = 1
               /\ Cardinality(joined) = 1
               /\ \A i \in rosters :
                     /\ emits[i].to = {s}
                     /\ emits[i].data.peers = {before.participants[t] : t \in others}
                     /\ \A peer \in emits[i].data.peers : peer.socketId # s
                     /\ emits[i].data.messages = before.messages
                     /\ emits[i].data.producers =
                           {before.producers[id] : id \in DOMAIN before.producers}
               /\ \A i \in joined :
                     /\ emits[i].to = others
                     /\ s \notin emits[i].to
                     /\ emits[i].data.socketId = s
                     /\ emits[i].data = rooms'[r].participants[s]
      ]_vars

\* a join has just sent a roster with a peer, chat history and a producer summary,
\* and room:peer-joined to that peer
C6_Witness ==
    /\ \E i \in 1..Len(sigOut.emits) :
          /\ sigOut.emits[i].ev = "room:roster"
          /\ sigOut.emits[i].data.peers # {}
          /\ sigOut.emits[i].data.messages # <<>>
          /\ sigOut.emits[i].data.producers # {}
    /\ \E i \in 1..Len(sigOut.emits) :
          /\ sigOut.emits[i].ev = "room:peer-joined"
          /\ sigOut.emits[i].to # {}

\* C7: every room's chat history holds at most 50 messages and equals the most
\* recent min(n, 50) of the n messages accepted for that room, in arrival order.
C7_HistoryIsLastFifty ==
    \A r \in DOMAIN rooms :
        LET n == Len(chatLog[r])
            k == IF n < 50 THEN n ELSE 50
            history == rooms[r].messages
        IN /\ Len(history) <= 50
           /\ Len(history) = k
           /\ \A i \in 1..k : history[i] = chatLog[r][n - k + i]

\* more than 50 messages have been accepted for a room and its history is full
C7_Witness ==
    \E r \in DOMAIN rooms : Len(chatLog[r]) > 50 /\ Len(rooms[r].messages) = 50

\* C8: a room:message (with room id and text) from a connection that is not a
\* participant of the room is acknowledged with an error, leaves the history as it
\* was and emits nothing; from a participant it appends one message carrying the
\* sender's recorded userId and displayName, emits it to every member of the room,
\* the sender included, and is acknowledged ok.
C8_MessageRequiresParticipant ==
    [][\A s \in Sockets, rin \in ChatRooms, textIn \in TextInputs :
         LET r == sanitizeText(rin, "")
             text == sanitizeText(textIn, "")
         IN (RoomMessage(s, rin, textIn) /\ r # "" /\ text # "") =>
            LET before == IF r \in DOMAIN rooms THEN rooms[r] ELSE EmptyRoom
                after == rooms'[r].messages
            IN IF s \notin DOMAIN before.participants
               THEN /\ sigOut'.ack \notin {"ok", "none"}
                    /\ sigOut'.emits = <<>>
                    /\ after = before.messages
               ELSE /\ Len(after) >= 1
                    /\ LET m == after[Len(after)] IN
                       /\ m.userId = before.participants[s].userId
                       /\ m.displayName = before.participants[s].displayName
                       /\ m.message = text
                       /\ m.roomId = r
                       /\ \A i \in 1..Len(before.messages) : before.messages[i].id # m.id
                       /\ sigOut'.emits =
                             <<[ev |-> "room:message", to |-> DOMAIN before.participants,
                                data |-> m]>>
                    /\ s \in sigOut'.emits[1].to
                    /\ sigOut'.ack = "ok"
      ]_vars

\* a message from a non-participant has just been refused while the room has a history
C8_Witness ==
    /\ sigOut.ack = "Not in room"
    /\ \E r \in DOMAIN rooms : rooms[r].messages # <<>> /\ DOMAIN rooms[r].participants # {}

\* C9: a room:raise-hand from a participant sets that participant's hand-raised
\* flag to the given value and emits room:hand-raised with that value and the
\* participant's userId to every member of the room, the sender included; applying
\* the same request again to the resulting state changes nothing.
C9_RaiseHandSetsAndBroadcasts ==
    [][\A s \in Sockets, rin \in HandRooms, v \in HandInputs :
         LET r == sanitizeText(rin, "") IN
         (/\ RoomRaiseHand(s, rin, v)
          /\ r \in DOMAIN rooms
          /\ s \in DOMAIN rooms[r].participants) =>
            LET given == (v = "true")
                me == rooms'[r].participants[s]
            IN /\ me.raisedHand = given
               /\ sigOut'.emits =
                     <<[ev |-> "room:hand-raised", to |-> DOMAIN rooms[r].participants,
                        data |-> [userId |-> rooms[r].participants[s].userId,
                                  raisedHand |-> given]]>>
               /\ s \in sigOut'.emits[1].to
               /\ RaiseHandState(rooms', s, r, v) = rooms'
               /\ rooms[r].participants[s].raisedHand = given => rooms' = rooms
      ]_vars

\* a participant with a raised hand has just been told so, with another member
C9_Witness ==
    \E i \in 1..Len(sigOut.emits) :
        /\ sigOut.emits[i].ev = "room:hand-raised"
        /\ sigOut.emits[i].data.raisedHand
        /\ Cardinality(sigOut.emits[i].to) = 2

\* C3: in the media engine a room id has one Router while it is registered:
\* whatever the interleaving of the requests that call getOrCreateRoom for an
\* id, at most one room object of that id holds a Router that is still open
C3_OneRouterPerRoomId ==
    \A r \in MeRooms1 :
        Cardinality({o \in DOMAIN meObjs :
                        meObjs[o].id = r /\ meObjs[o].router \notin closedRouters}) <= 1

\* C4: a POST /rooms for an id for which an earlier POST /rooms has completed
\* (and that was not deleted since) answers 201 with the capabilities and the
\* createdAt of the first, requests no Router, leaves the set of registered
\* rooms as it is and does not advance nextWorkerIndex
C4_PostRoomsIdempotent ==
    [][\A r \in MeRooms1 :
          (PostRooms(r) /\ r \in DOMAIN firstPost) =>
              /\ meOut'.status = 201
              /\ meOut'.body.roomId = r
              /\ meOut'.body.rtpCapabilities = [codecs |-> {"audio/opus", "video/VP8"}]
              /\ meOut'.body.createdAt = firstPost[r]
              /\ nextRouterId' = nextRouterId
              /\ DOMAIN meRooms' = DOMAIN meRooms
              /\ nextWorkerIndex' = nextWorkerIndex]_vars

\* C5: the pool keeps the WorkerCount workers of startup, and the k-th room
\* creation (k from 0, in the order in which getOrCreateRoom starts them, which
\* is the order of the Routers it requests) is on worker k mod WorkerCount,
\* both while its Router is awaited and once the room object exists
C5_RoundRobinOverFixedPool ==
    /\ workers = [i \in 1..WorkerCount |-> i - 1]
    /\ nextWorkerIndex = nextRouterId - 1
    /\ \A o \in DOMAIN meObjs : meObjs[o].worker = (o - 1) % WorkerCount
    /\ \A p \in mePending :
          p.kind = "createRouter" => p.worker = (p.obj - 1) % WorkerCount

\* WorkerCount + 1 rooms were created: the last is on the worker of the first,
\* the second on another one
C5_Witness ==
    /\ {1, 2, WorkerCount + 1} \subseteq DOMAIN meObjs
    /\ meObjs[WorkerCount + 1].worker = meObjs[1].worker
    /\ meObjs[2].worker # meObjs[1].worker
    /\ meObjs[WorkerCount + 1].id # meObjs[1].id

\* C10: a consumer request whose transport is found and whose body names a
\* producer and capabilities is checked before anything is created: unless the
\* Router has the producer and the capabilities hold the codec of its kind, the
\* answer is 400 "Cannot consume", no consumer exists afterwards that did not
\* before and transport.consume is not called; otherwise transport.consume is
\* called, and when it resolves with transport and producer still open the
\* answer is 201 with the new consumer's id, the producer id, the producer's
\* kind and the RTP parameters
C10_ConsumeChecksCompatibility ==
    [][/\ \A p \in mePending, tr \in MeTransportInputs, pr \in MeProducerInputs,
             caps \in CapabilityInputs :
             (/\ PostConsumersParsed(p, tr, pr, caps)
              /\ tr \in meObjs[p.obj].transports
              /\ pr # Undefined
              /\ caps.present) =>
                IF /\ pr \in DOMAIN meProducers
                   /\ ~meProducers[pr].closed
                   /\ meTransports[meProducers[pr].transport].router = meObjs[p.obj].router
                   /\ (IF meProducers[pr].kind = "audio" THEN "audio/opus" ELSE "video/VP8")
                          \in caps.codecs
                THEN /\ meOut'.status = 0
                     /\ \E q \in mePending' \ mePending :
                           /\ q.kind = "consume"
                           /\ q.arg = [transport |-> tr, producerId |-> pr]
                ELSE /\ meOut' = [status |-> 400, body |-> [error |-> "Cannot consume"]]
                     /\ meConsumers' = meConsumers
                     /\ \A q \in mePending' : q.kind # "consume" \/ q \in mePending
       /\ \A p \in mePending :
             (/\ PostConsumersResume(p)
              /\ ~meTransports[p.arg.transport].closed
              /\ p.arg.producerId \in DOMAIN meProducers
              /\ ~meProducers[p.arg.producerId].closed) =>
                /\ meOut'.status = 201
                /\ DOMAIN meConsumers' = DOMAIN meConsumers \cup {meOut'.body.id}
                /\ meOut'.body.id \notin DOMAIN meConsumers
                /\ meConsumers'[meOut'.body.id].transport = p.arg.transport
                /\ meConsumers'[meOut'.body.id].producerId = p.arg.producerId
                /\ meOut'.body.producerId = p.arg.producerId
                /\ meOut'.body.kind = meProducers[p.arg.producerId].kind
                /\ DOMAIN meOut'.body = {"id", "producerId", "kind", "rtpParameters"}]_vars

\* a consumer was created for an open producer, and a later request for a
\* producer of the Router was refused with "Cannot consume"
C10_Witness ==
    /\ meOut = [status |-> 400, body |-> [error |-> "Cannot consume"]]
    /\ \E c \in DOMAIN meConsumers : ~meProducers[meConsumers[c].producerId].closed
    /\ 1 \notin closedRouters

\* C11: POST /rooms/{roomId}/transports for an id that is not registered is
\* answered 404 and requests neither a Router nor a transport
C11_CreateTransportUnknownRoomNotFound ==
    [][\A r \in MeRooms1 :
          (PostTransports(r) /\ r \notin DOMAIN meRooms) =>
              /\ meOut'.status = 404
              /\ nextRouterId' = nextRouterId
              /\ mePending' = mePending]_vars

\* C12: a lookup miss outside the join and producer paths creates no room:
\* a room:message naming a room the signaling process does not hold leaves the
\* set of its rooms as it is
C12_LookupMissCreatesNoRoom ==
    [][\A s \in Sockets, r \in RoomIds, text \in TextInputs :
          (RoomMessage(s, r, text) /\ r \notin DOMAIN rooms) =>
              DOMAIN rooms' = DOMAIN rooms]_vars

\* C13: a room:join, create-transport, connect-transport, produce, consume or
\* room:message whose required field (roomId; transportId; producerId; message
\* text, as the handler requires them) is missing or blank is acknowledged
\* with an error, emits nothing, leaves rooms, socket.io membership and chat
\* history as they are and starts no call to the media engine
C13_MissingFieldRefused ==
    [][LET missing(v) == v \in {Undefined, Blank, ""}
           refused == /\ sigOut'.ack \notin {"ok", "none"}
                      /\ sigOut'.emits = <<>>
                      /\ rooms' = rooms
                      /\ sioRooms' = sioRooms
                      /\ chatLog' = chatLog
                      /\ sigPending' = sigPending
       IN /\ \A s \in Sockets, r \in ReqRooms :
                (RoomJoin(s, r, AnonIdentity) /\ missing(r)) => refused
          /\ \A s \in ReqSockets, r \in ReqRooms :
                (CreateTransport(s, r) /\ missing(r)) => refused
          /\ \A s \in ReqSockets, r \in ReqRooms, tr \in TransportInputs :
                (ConnectTransport(s, r, tr) /\ (missing(r) \/ missing(tr))) => refused
          /\ \A s \in ReqSockets, r \in ReqRooms, tr \in TransportInputs :
                (Produce(s, r, tr, "video") /\ (missing(r) \/ missing(tr))) => refused
          /\ \A s \in ReqSockets, r \in ReqRooms, tr \in TransportInputs,
                pr \in ProducerInputs :
                (Consume(s, r, tr, pr) /\ (missing(r) \/ missing(tr) \/ missing(pr)))
                    => refused
          /\ \A s \in Sockets, r \in ReqRooms, text \in TextInputs :
                (RoomMessage(s, r, text) /\ (missing(r) \/ missing(text))) => refused
      ]_vars

\* with the media engine configured, two participants in the room and a call
\* in flight, a request was refused for a missing field
C13_Witness ==
    /\ sigOut.ack = "Missing data"
    /\ mediaWorkerUrl
    /\ sigPending # {}
    /\ Cardinality(DOMAIN rooms["r1"].participants) = 2

\* C14: when the media-engine call of create-transport, connect-transport,
\* produce or consume fails (no engine configured, or the call comes back
\* failed) the requester is acknowledged with the error, nothing is emitted,
\* rooms (participants, producer index, history), socket.io membership and
\* chat history are as before, and no socket is disconnected
C14_EngineFailureAcknowledged ==
    [][LET failed(error) == /\ sigOut' = [emits |-> <<>>, ack |-> error,
                                          ackData |-> [none |-> TRUE]]
                            /\ rooms' = rooms
                            /\ sioRooms' = sioRooms
                            /\ chatLog' = chatLog
                            /\ connected' = connected
                            /\ nextProducerId' = nextProducerId
       IN /\ \A p \in sigPending, e \in WorkerErrors :
                (CallResumeFail(p, e) \/ ProduceResumeFail(p, e)) =>
                    failed(e) /\ sigPending' = sigPending \ {p}
          /\ \A s \in ReqSockets :
                (/\ ~mediaWorkerUrl
                 /\ \/ CreateTransport(s, "r1")
                    \/ ConnectTransport(s, "r1", "t1")
                    \/ Produce(s, "r1", "t1", "video")
                    \/ Consume(s, "r1", "t1", "p1")) =>
                    failed("Media worker not configured") /\ sigPending' = sigPending
      ]_vars

\* a call of a participant who owns a producer came back failed while another
\* call is still in flight
C14_Witness ==
    /\ sigOut.ack = "Media worker request failed"
    /\ sigPending # {}
    /\ "r1" \in DOMAIN rooms
    /\ \E s \in DOMAIN rooms["r1"].participants :
          rooms["r1"].participants[s].producerIds # <<>>

\* C15: every room:join, room:message, create-transport, connect-transport,
\* produce and consume is acknowledged exactly once: a step that takes a
\* request (it resumes no handler) either acknowledges it or suspends one
\* handler on its fetch, never both; a step that resumes a suspended handler
\* acknowledges and ends it; and every suspended handler is eventually
\* resumed, whatever its fetch returns
C15_EveryRequestAcknowledgedOnce ==
    /\ [][IF sigPending \subseteq sigPending'
          THEN /\ Cardinality(sigPending' \ sigPending) <= 1
               /\ (sigOut'.ack # "none") # (sigPending' # sigPending)
          ELSE /\ \E p \in sigPending : sigPending' = sigPending \ {p}
               /\ sigOut'.ack # "none"]_vars
    /\ \A p \in AckPendings : (p \in sigPending) ~> (p \notin sigPending)

\* a join was acknowledged after its fetch brought the capabilities, while
\* another handler is still suspended
C15_Witness ==
    /\ sigOut.ack = "ok"
    /\ sigOut.emits # <<>>
    /\ sigOut.emits[1].ev = "room:rtp-capabilities"
    /\ sigPending # {}

\* C16: every producer or consumer request of the media engine that reaches
\* its SDK call ends with a response, a success or a structured error, and
\* leaves the process running
C16_EngineFailuresAnswered ==
    [][\A p \in mePending :
          ((\E resolved \in BOOLEAN : PostProducersResume(p, resolved))
              \/ PostConsumersResume(p)) =>
              /\ meOut'.status \in {201, 400, 404, 500}
              /\ meAlive']_vars

\* C17: when a worker of the pool reports its death the process is down at
\* once, with the pool and every room as they were; and once the process is
\* down nothing of the media engine changes again: no request is served, no
\* room is created or moved to another worker, the process does not come back
C17_WorkerDeathTerminates ==
    [][/\ \A w \in 0..(WorkerCount - 1) :
             WorkerDied(w) => /\ ~meAlive'
                              /\ workers' = workers
                              /\ meRooms' = meRooms
                              /\ meObjs' = meObjs
       /\ ~meAlive => /\ ~meAlive'
                      /\ meOut' = meOut
                      /\ meRooms' = meRooms
                      /\ meObjs' = meObjs
                      /\ mePending' = mePending
                      /\ meTransports' = meTransports
                      /\ nextWorkerIndex' = nextWorkerIndex
                      /\ nextRouterId' = nextRouterId]_vars

\* the process went down by a worker's death (no Router was closed, so no SDK
\* call was rejected) with a room registered and a request suspended
C17_Witness ==
    /\ ~meAlive
    /\ closedRouters = {}
    /\ DOMAIN meRooms # {}
    /\ mePending # {}

\* C18: the mutations of a connection's events are applied in arrival order:
\* a mediasoup:produce arrives only on a live connection, so its mutation
\* (producer id and producer summary added) is never applied after the
\* disconnect of that connection has been processed
C18_MutationsInArrivalOrder ==
    [][\A p \in sigPending : ProduceResumeOk(p) => connected[p.sock]]_vars

\* C19: once socket s1 is no longer a participant of r1 (it left or
\* disconnected), the transport t1 and the producer p1 that the media engine
\* created for it are eventually closed
C19_DepartureClosesMedia ==
    ("s1" \notin DOMAIN rooms["r1"].participants)
        ~> (meProducers["p1"].closed /\ meTransports["t1"].closed)

\* C20: DELETE /rooms/{roomId} on a registered room answers 200, closes the
\* room's Router and every transport created for that room id and removes the
\* id from the registry (so that GET answers 404); on an id that is not
\* registered it answers 404 and changes neither the registry nor any Router,
\* transport or producer
C20_DeleteClosesRoom ==
    [][\A r \in MeRooms1 :
          DeleteRoom(r) =>
              IF r \in DOMAIN meRooms
              THEN /\ meOut'.status = 200
                   /\ meObjs[meRooms[r]].router \in closedRouters'
                   /\ r \notin DOMAIN meRooms'
                   /\ \A o \in DOMAIN meObjs :
                         meObjs[o].id = r =>
                             \A t \in meObjs[o].transports : meTransports'[t].closed
              ELSE /\ meOut'.status = 404
                   /\ UNCHANGED <<meRooms, meObjs, closedRouters, meTransports,
                                  meProducers>>]_vars

\* C21: no index of a room object that is still referenced, by the registry
\* or by the `room` variable of a suspended handler, holds a closed transport,
\* a closed producer or a producer whose transport is closed
C21_NoDanglingIndexEntries ==
    \A o \in {meRooms[r] : r \in DOMAIN meRooms}
                \cup {p.obj : p \in {q \in mePending : q.kind # "createRouter"}} :
        /\ \A t \in meObjs[o].transports : ~meTransports[t].closed
        /\ \A pr \in meObjs[o].producers :
              /\ ~meProducers[pr].closed
              /\ ~meTransports[meProducers[pr].transport].closed

\* C22: a connect request naming a room that is not registered or a transport
\* that is not in the room's index is answered 404, and one without
\* dtlsParameters 400, in each case without calling transport.connect (no
\* handler is suspended on it, no transport changes); a connect request is
\* answered 200 {ok: true} only when the named transport, which is in the index
\* of the room object of the named room, has taken the parameters
C22_ConnectTransportOutcomes ==
    [][/\ \A r \in MeRoomIds, t \in ConnectTransports :
             PostConnect(r, t) =>
                 /\ (r \notin DOMAIN meRooms =>
                        meOut' = Response(404, ErrorBody("Room not found")))
                 /\ (r \in DOMAIN meRooms /\ t \notin meObjs[meRooms[r]].transports =>
                        meOut' = Response(404, ErrorBody("Transport not found")))
                 /\ (meOut'.status = 404 => mePending' = mePending)
                 /\ {q \in mePending' : q.kind = "connect"} = {q \in mePending : q.kind = "connect"}
                 /\ meTransports' = meTransports
       /\ \A p \in mePending :
             PostConnectParsed(p, Undefined) =>
                 /\ meOut' = Response(400, ErrorBody("Missing dtlsParameters"))
                 /\ {q \in mePending' : q.kind = "connect"} = {q \in mePending : q.kind = "connect"}
                 /\ meTransports' = meTransports
       /\ \A p \in mePending, resolved \in BOOLEAN :
             (PostConnectResume(p, resolved) /\ meOut'.status = 200) =>
                 /\ meOut'.body = [ok |-> TRUE]
                 /\ meTransports'[p.arg.transport].connected
                 /\ p.arg.transport \in meObjs[p.obj].transports
                 /\ meObjs[p.obj].id = p.room]_vars

C22_Witness ==
    /\ meOut = Response(200, [ok |-> TRUE])
    /\ "r1" \in DOMAIN meRooms
    /\ meTransports["t1"].connected
    /\ ~meTransports["t1"].closed
    /\ \E q \in mePending : q.kind = "connect"

\* C23: a producer request naming a room that is not registered, or a
\* transport that is not in the index of the room's object, is answered 404 and
\* registers nothing; a producer request answered 201 has registered one new
\* producer, in the producer index of the room object it looked up and in no
\* other, on a transport of that object's index and Router, and the response
\* carries the producer's id and kind
C23_CreateProducerOutcomes ==
    [][/\ \A r \in ProduceRooms :
             (PostProducers(r) /\ r \notin DOMAIN meRooms) =>
                 /\ meOut' = Response(404, ErrorBody("Room not found"))
                 /\ mePending' = mePending
                 /\ UNCHANGED <<meObjs, meProducers>>
       /\ \A p \in mePending, tr \in ProduceTransports, k \in Kinds :
             (PostProducersParsed(p, tr, k) /\ tr \notin meObjs[p.obj].transports) =>
                 /\ meOut' = Response(404, ErrorBody("Transport not found"))
                 /\ mePending' = mePending \ {p}
                 /\ UNCHANGED <<meObjs, meProducers>>
       /\ \A p \in mePending, resolved \in BOOLEAN :
             (PostProducersResume(p, resolved) /\ meOut'.status = 201) =>
                 LET id == meOut'.body.id IN
                 /\ DOMAIN meProducers' \ DOMAIN meProducers = {id}
                 /\ meOut'.body.kind = meProducers'[id].kind
                 /\ meObjs[p.obj].id = p.room
                 /\ \A o \in DOMAIN meObjs : id \in meObjs'[o].producers <=> o = p.obj
                 /\ meProducers'[id].transport \in meObjs[p.obj].transports
                 /\ meTransports[meProducers'[id].transport].router = meObjs[p.obj].router]_vars

\* both rooms hold a producer of their own, made on their own transport
C23_Witness ==
    /\ meOut.status = 201
    /\ \E a, b \in DOMAIN meProducers :
          /\ a \in meObjs[1].producers /\ meProducers[a].transport = "t1"
          /\ b \in meObjs[2].producers /\ meProducers[b].transport = "t2"

\* C24: when a mediasoup:produce of a participant of the room succeeds, the new
\* producer id is appended to the participant's owned-producer list, the summary
\* (id, the participant's userId, kind) is added to the room's producer index,
\* room:producer-added with that summary goes to the connections of the other
\* participants and not to the producer, and the requester is acknowledged with
\* the producer id; every roster snapshot of a join holds the summaries of the
\* index, and a summary listed by a participant stays in the index while that
\* participant stays
C24_ProduceRegistersAndAnnounces ==
    [][/\ \A p \in sigPending :
             (/\ ProduceResumeOk(p)
              /\ p.room \in DOMAIN rooms
              /\ p.sock \in DOMAIN rooms[p.room].participants) =>
                 LET room == rooms[p.room]
                     id == sigOut'.ackData.producerId
                     summary == [id |-> id, userId |-> room.participants[p.sock].userId,
                                 kind |-> p.mkind]
                 IN /\ sigOut'.ack = "ok"
                    /\ id \notin DOMAIN room.producers
                    /\ rooms'[p.room].participants[p.sock].producerIds
                          = Append(room.participants[p.sock].producerIds, id)
                    /\ rooms'[p.room].producers = PutKey(room.producers, id, summary)
                    /\ sigOut'.emits
                          = <<Emit("room:producer-added",
                                   DOMAIN room.participants \ {p.sock}, summary)>>
       /\ \A s \in Sockets, rin \in {"r1"}, ident \in {NamedIdentity} :
             (/\ RoomJoin(s, rin, ident)
              /\ sanitizeText(rin, "") \in DOMAIN rooms) =>
                 \E i \in 1..Len(sigOut'.emits) :
                     /\ sigOut'.emits[i].ev = "room:roster"
                     /\ sigOut'.emits[i].to = {s}
                     /\ sigOut'.emits[i].data.producers
                           = {rooms[sanitizeText(rin, "")].producers[id] :
                                 id \in DOMAIN rooms[sanitizeText(rin, "")].producers}
       /\ \A r \in DOMAIN rooms, s \in Sockets :
             s \in DOMAIN rooms[r].participants =>
                 \A id \in SeqToSet(rooms[r].participants[s].producerIds) :
                     \/ s \notin DOMAIN rooms'[r].participants
                     \/ /\ id \in DOMAIN rooms'[r].producers
                        /\ rooms'[r].producers[id] = rooms[r].producers[id]]_vars

\* a participant produced while another participant was in the room
C24_Witness ==
    /\ sigOut.ack = "ok"
    /\ Len(sigOut.emits) = 1
    /\ sigOut.emits[1].ev = "room:producer-added"
    /\ sigOut.emits[1].to # {}
    /\ \E r \in DOMAIN rooms :
          \E s \in DOMAIN rooms[r].participants :
              /\ s \notin sigOut.emits[1].to
              /\ sigOut.ackData.producerId \in SeqToSet(rooms[r].participants[s].producerIds)

\* C25: when the capability fetch of a join returns capabilities, they are
\* stored in the room's state and one room:rtp-capabilities carrying them goes
\* to every connection that is then a member of the room, which covers every
\* participant's connection; a join of a room whose capabilities are cached
\* suspends on no fetch, is acknowledged at once and gets the cached
\* capabilities in its roster
C25_CapabilitiesCachedAndBroadcast ==
    [][/\ \A p \in sigPending :
             RoomJoinResume(p, "caps") =>
                 /\ rooms'[p.room].rtpCapabilities = "caps"
                 /\ Len(sigOut'.emits) = 1
                 /\ sigOut'.emits[1].ev = "room:rtp-capabilities"
                 /\ sigOut'.emits[1].data = [rtpCapabilities |-> "caps"]
                 /\ sigOut'.emits[1].to = Members(sioRooms, p.room)
                 /\ DOMAIN rooms[p.room].participants \subseteq sigOut'.emits[1].to
       /\ \A s \in Sockets :
             (/\ RoomJoin(s, "r1", NamedIdentity)
              /\ "r1" \in DOMAIN rooms
              /\ rooms["r1"].rtpCapabilities # "none") =>
                 /\ sigPending' = sigPending
                 /\ sigOut'.ack = "ok"
                 /\ \E i \in 1..Len(sigOut'.emits) :
                       /\ sigOut'.emits[i].ev = "room:roster"
                       /\ sigOut'.emits[i].to = {s}
                       /\ sigOut'.emits[i].data.rtpCapabilities = rooms["r1"].rtpCapabilities]_vars

\* the capabilities arrived while both connections were members of the room,
\* and went to both
C25_Witness ==
    /\ Len(sigOut.emits) = 1
    /\ sigOut.emits[1].ev = "room:rtp-capabilities"
    /\ sigOut.emits[1].to = Sockets
    /\ "r1" \in DOMAIN rooms
    /\ rooms["r1"].rtpCapabilities = "caps"

\* C26: the disconnect of a connection that has a participant record in no
\* room emits nothing and leaves every room's state as it is, and so does a
\* room:leave for a room in which the sender has no participant record
C26_NonParticipantDepartsSilently ==
    [][\A s \in Sockets :
          /\ (/\ Disconnecting(s)
              /\ \A r \in DOMAIN rooms : s \notin DOMAIN rooms[r].participants) =>
                 /\ sigOut'.emits = <<>>
                 /\ rooms' = rooms
          /\ (/\ RoomLeave(s, "r1")
              /\ ("r1" \in DOMAIN rooms => s \notin DOMAIN rooms["r1"].participants)) =>
                 /\ sigOut'.emits = <<>>
                 /\ rooms' = rooms]_vars

\* s2 is gone; it has no participant record in r1, where s1 is a participant
\* and a producer summary made for s2 still stands
C26_Witness ==
    /\ ~connected["s2"]
    /\ sigOut = Out(<<>>, "none", NoData)
    /\ "r1" \in DOMAIN rooms
    /\ "s1" \in DOMAIN rooms["r1"].participants
    /\ \E id \in DOMAIN rooms["r1"].producers : rooms["r1"].producers[id].userId = "s2"

\* C27: s1 being the only connection that asks for transports, and asking for
\* send transports of r1 only, the media engine holds at most one open
\* transport
C27_OneTransportPerDirection ==
    Cardinality({t \in DOMAIN meTransports : ~meTransports[t].closed}) <= 1

\* C28: every producer summary of a room's producer index is listed in the
\* owned-producer list of exactly one participant of that room
C28_EverySummaryHasOneOwner ==
    \A r \in DOMAIN rooms :
        \A id \in DOMAIN rooms[r].producers :
            Cardinality({s \in DOMAIN rooms[r].participants :
                            id \in SeqToSet(rooms[r].participants[s].producerIds)}) = 1

\* C29: a transport or a producer is registered only on a room object that is
\* in the room registry: every step that adds to the transport index or to the
\* producer index of a room object finds that object in the registry
C29_RegisteredOnlyOnRegisteredRooms ==
    [][\A o \in DOMAIN meObjs :
          (\/ meObjs'[o].transports # meObjs[o].transports
           \/ meObjs'[o].producers # meObjs[o].producers) =>
              o \in {meRooms[r] : r \in DOMAIN meRooms}]_vars

\* C30: a connection whose disconnect has been processed has a participant
\* record in no room, whatever handlers of it resume afterwards
C30_NoParticipantAfterDisconnect ==
    \A s \in Sockets :
        ~connected[s] => \A r \in DOMAIN rooms : s \notin DOMAIN rooms[r].participants

\* both connections are gone and the join of one of them, suspended on the
\* capability fetch when it disconnected, has resumed since: the capabilities
\* went to a room without members
C30_Witness ==
    /\ \A s \in Sockets : ~connected[s]
    /\ sigOut.ack = "ok"
    /\ Len(sigOut.emits) = 1
    /\ sigOut.emits[1].ev = "room:rtp-capabilities"
    /\ sigOut.emits[1].to = {}
    /\ "r1" \in DOMAIN rooms
    /\ DOMAIN rooms["r1"].participants = {}

\* --------------------------------------------------- two-room specification
\* presence in two rooms, a media engine being configured and answering: s1
\* joins, leaves, raises its hand and sends at most one accepted chat message
\* in r1 and in r2 and produces in r1, s2 joins and leaves r1
\* the (connection, room) pairs of the room:join and room:leave requests
RoomsJoins == {<<"s1", "r1">>, <<"s1", "r2">>, <<"s2", "r1">>}

NextRooms ==
    \/ \E sr \in RoomsJoins : RoomJoin(sr[1], sr[2], NamedIdentity)
    \/ \E p \in sigPending : RoomJoinResume(p, "caps")
    \/ \E sr \in RoomsJoins : RoomLeave(sr[1], sr[2])
    \/ Disconnecting("s1")
    \/ \E r \in RoomIds : RoomRaiseHand("s1", r, "true")
    \/ \E r \in RoomIds : nextMsgId = 1 /\ RoomMessage("s1", r, "hi")
    \/ Produce("s1", "r1", "t1", "video")
    \/ \E p \in sigPending : ProduceResumeOk(p)

SpecRooms == InitAnnounce /\ [][NextRooms]_vars

\* C31: in every room each participant record is stored under the id of the
\* connection it carries, so a connection has at most one record per room; a
\* room:join by a connection that already has a record in that room replaces
\* the record by a fresh one (hand not raised, no owned producer), leaves the
\* set of record keys and every other record as they are, and sends
\* room:peer-joined with the fresh record to the other members of the room
C31_OneRecordPerConnection ==
    [][/\ \A r \in DOMAIN rooms' : \A s \in DOMAIN rooms'[r].participants :
             rooms'[r].participants[s].socketId = s
       /\ \A sr \in RoomsJoins :
             LET s == sr[1]
                 r == sr[2]
             IN (/\ RoomJoin(s, r, NamedIdentity)
                 /\ r \in DOMAIN rooms
                 /\ s \in DOMAIN rooms[r].participants) =>
                    LET before == rooms[r].participants
                        after == rooms'[r].participants
                    IN /\ DOMAIN after = DOMAIN before
                       /\ \A t \in DOMAIN before \ {s} : after[t] = before[t]
                       /\ after[s].socketId = s
                       /\ after[s].raisedHand = FALSE
                       /\ after[s].producerIds = <<>>
                       /\ after[s].userId = before[s].userId
                       /\ sigOut'.emits[1] =
                             Emit("room:peer-joined", Members(sioRooms, r) \ {s}, after[s])
                       /\ DOMAIN before \ {s} \subseteq sigOut'.emits[1].to]_vars

\* s1 has just joined r1 again, s2 being told: the producer that s1 registered
\* as a participant of r1 is still in the index and no longer in s1's record
C31_Witness ==
    /\ Len(sigOut.emits) = 2
    /\ sigOut.emits[1].ev = "room:peer-joined"
    /\ sigOut.emits[1].to = {"s2"}
    /\ sigOut.emits[1].data.socketId = "s1"
    /\ "r1" \in DOMAIN rooms
    /\ DOMAIN rooms["r1"].participants = {"s1", "s2"}
    /\ rooms["r1"].participants["s1"].producerIds = <<>>
    /\ \E id \in DOMAIN rooms["r1"].producers :
          rooms["r1"].producers[id].userId = rooms["r1"].participants["s1"].userId

\* ------------------------------------------- authentication specification
\* AUTH_REQUIRED=true with a media engine configured: the handlers of a
\* connection are registered while resolveAuth(socket) is still pending
InitAuth ==
    /\ authRequired = TRUE
    /\ mediaWorkerUrl = TRUE
    /\ SigInit
    /\ MeInit

\* the requests of the two connections, before or after their identity is
\* resolved; the calls that are only relayed come from s1, and at most one
\* chat message is accepted
NextAuth ==
    \/ \E s \in Sockets, valid \in BOOLEAN : AuthResolve(s, valid)
    \/ \E s \in Sockets : RoomJoin(s, "r1", NamedIdentity)
    \/ \E p \in sigPending : RoomJoinResume(p, "caps")
    \/ \E s \in Sockets : nextMsgId = 1 /\ RoomMessage(s, "r1", "hi")
    \/ \E s \in Sockets : RoomRaiseHand(s, "r1", "true")
    \/ \E s \in ReqSockets : CreateTransport(s, "r1")
    \/ \E s \in ReqSockets : ConnectTransport(s, "r1", "t1")
    \/ \E s \in ReqSockets : Consume(s, "r1", "t1", "p1")
    \/ \E s \in Sockets : Produce(s, "r1", "t1", "video")
    \/ \E p \in sigPending : CallResumeOk(p)
    \/ \E p \in sigPending : ProduceResumeOk(p)

SpecAuth == InitAuth /\ [][NextAuth]_vars

\* C32: when authentication is required, no event handler run for a connection
\* whose identity is not resolved (the resolution pending, or the token found
\* invalid) changes the rooms map (set of rooms, participants, chat history,
\* producer index), and none sends a call to the media engine, neither before
\* its await nor in its resumption
C32_UnresolvedConnectionInert ==
    [][\A s \in Sockets :
          (/\ authRequired
           /\ sockAuth[s] # "ok"
           /\ \/ RoomJoin(s, "r1", NamedIdentity)
              \/ RoomMessage(s, "r1", "hi")
              \/ RoomRaiseHand(s, "r1", "true")
              \/ CreateTransport(s, "r1")
              \/ ConnectTransport(s, "r1", "t1")
              \/ Consume(s, "r1", "t1", "p1")
              \/ Produce(s, "r1", "t1", "video")
              \/ \E p \in sigPending :
                    p.sock = s /\ (CallResumeOk(p) \/ ProduceResumeOk(p))) =>
             /\ rooms' = rooms
             /\ sigPending' \subseteq sigPending]_vars

\* C33: a room:join with a room id puts the sender's record in the room and is
\* acknowledged {ok:true} whatever the capability fetch returns. Without a
\* media engine the acknowledgment comes at once, with only room:peer-joined
\* and room:roster emitted and the cache left as it was; a fetch that returns
\* null is followed by the acknowledgment alone, the rooms map (records and
\* cache) staying as it is; and a join of a room whose cache is unset, a media
\* engine being configured, suspends on a new fetch
C33_JoinSurvivesFailedFetch ==
    [][/\ \A s \in Sockets, rin \in PresenceRooms, ident \in JoinIdentities :
             LET r == sanitizeText(rin, "")
                 unset == r \notin DOMAIN rooms \/ rooms[r].rtpCapabilities = "none"
             IN (RoomJoin(s, rin, ident) /\ r # "") =>
                   /\ s \in DOMAIN rooms'[r].participants
                   /\ rooms'[r].rtpCapabilities = (IF unset THEN "none"
                                                   ELSE rooms[r].rtpCapabilities)
                   /\ \A i \in 1..Len(sigOut'.emits) :
                         sigOut'.emits[i].ev # "room:rtp-capabilities"
                   /\ (unset /\ mediaWorkerUrl) =>
                         /\ JoinPending(s, r) \in sigPending' \ sigPending
                         /\ sigOut'.ack = "none"
                   /\ ~(unset /\ mediaWorkerUrl) =>
                         /\ sigPending' = sigPending
                         /\ sigOut'.ack = "ok"
       /\ \A p \in sigPending, caps \in {"caps", "none"} :
             RoomJoinResume(p, caps) =>
                   /\ sigOut'.ack = "ok"
                   /\ caps = "none" => (rooms' = rooms /\ sigOut'.emits = <<>>)]_vars

\* a fetch has just returned null: the join is acknowledged, the joiner's record
\* is in the room and the room's cache is unset
C33_Witness ==
    /\ mediaWorkerUrl
    /\ sigOut.ack = "ok"
    /\ sigOut.emits = <<>>
    /\ \E r \in DOMAIN rooms :
          /\ rooms[r].rtpCapabilities = "none"
          /\ DOMAIN rooms[r].participants # {}

\* ------------------------------------------------ capability specification
\* joins and departures of room r1 with a media engine that answers every
\* capability fetch with the capabilities: every suspended join is resumed
NextLearn ==
    \/ \E s \in Sockets : RoomJoin(s, "r1", NamedIdentity)
    \/ \E p \in sigPending : RoomJoinResume(p, "caps")
    \/ \E s \in Sockets : RoomLeave(s, "r1")
    \/ \E s \in Sockets : Disconnecting(s)

SpecLearn ==
    /\ InitAnnounce
    /\ [][NextLearn]_vars
    /\ \A s \in Sockets : WF_vars(RoomJoinResume(JoinPending(s, "r1"), "caps"))

\* C34: when every capability fetch returns the capabilities, a connection that
\* has just been sent the roster of r1 is, from then on, eventually either no
\* longer a member of r1 or a receiver of the capabilities, in a roster that
\* carries them or in a room:rtp-capabilities event
C34_JoinerLearnsCapabilities ==
    \A s \in Sockets :
        (\E i \in 1..Len(sigOut.emits) :
            sigOut.emits[i].ev = "room:roster" /\ sigOut.emits[i].to = {s})
        ~> (\/ s \notin Members(sioRooms, "r1")
            \/ \E i \in 1..Len(sigOut.emits) :
                  /\ s \in sigOut.emits[i].to
                  /\ \/ /\ sigOut.emits[i].ev = "room:roster"
                        /\ sigOut.emits[i].data.rtpCapabilities = "caps"
                     \/ /\ sigOut.emits[i].ev = "room:rtp-capabilities"
                        /\ sigOut.emits[i].data.rtpCapabilities = "caps")

\* two joins were suspended on their fetches at once; the first to return has
\* just told both members the capabilities, the other is still suspended
C34_Witness ==
    /\ Len(sigOut.emits) = 1
    /\ sigOut.emits[1].ev = "room:rtp-capabilities"
    /\ sigOut.emits[1].to = Sockets
    /\ sigPending # {}

\* C35: a room:join, room:leave, room:message, room:raise-hand or produce that
\* names room R, with the resumptions of the join and of the produce, leaves
\* the state of every other room (participants, chat history, producer index,
\* capability cache) as it is and registers no room but R; a room:leave takes
\* its sender out of R only, other memberships and records kept; a disconnect
\* takes the connection out of every room and leaves the records of the other
\* connections as they are
C35_OtherRoomsUntouched ==
    [][/\ \A r \in RoomIds :
             (\/ \E s \in Sockets : \/ RoomJoin(s, r, NamedIdentity)
                                    \/ RoomLeave(s, r)
                                    \/ RoomMessage(s, r, "hi")
                                    \/ RoomRaiseHand(s, r, "true")
                                    \/ Produce(s, r, "t1", "video")
              \/ \E p \in sigPending :
                    p.room = r /\ (RoomJoinResume(p, "caps") \/ ProduceResumeOk(p))) =>
                /\ DOMAIN rooms' \subseteq DOMAIN rooms \cup {r}
                /\ \A q \in DOMAIN rooms \ {r} : rooms'[q] = rooms[q]
       /\ \A s \in Sockets, r \in RoomIds :
             (RoomLeave(s, r) /\ r \in DOMAIN rooms) =>
                /\ s \notin DOMAIN rooms'[r].participants
                /\ s \notin Members(sioRooms', r)
                /\ \A q \in RoomIds \ {r} :
                      (s \in Members(sioRooms', q)) = (s \in Members(sioRooms, q))
                /\ \A t \in Sockets \ {s} : sioRooms'[t] = sioRooms[t]
       /\ \A s \in Sockets :
             Disconnecting(s) =>
                /\ DOMAIN rooms' = DOMAIN rooms
                /\ \A q \in DOMAIN rooms :
                      /\ DOMAIN rooms'[q].participants = DOMAIN rooms[q].participants \ {s}
                      /\ \A t \in DOMAIN rooms'[q].participants :
                            rooms'[q].participants[t] = rooms[q].participants[t]
                /\ \A q \in RoomIds : s \notin Members(sioRooms', q)]_vars

\* s1, a participant of r1 and of r2, has just left r1, where s2 was told: s1
\* is still a participant and a member of r2
C35_Witness ==
    /\ connected["s1"]
    /\ Len(sigOut.emits) > 0
    /\ sigOut.emits[Len(sigOut.emits)].ev = "room:peer-left"
    /\ sigOut.emits[Len(sigOut.emits)].to = {"s2"}
    /\ "r2" \in DOMAIN rooms
    /\ "s1" \in DOMAIN rooms["r2"].participants
    /\ "s1" \in Members(sioRooms, "r2")
    /\ "s1" \notin DOMAIN rooms["r1"].participants

\* C36: a room:raise-hand from a participant of the named room changes, in the
\* whole rooms map, only the hand-raised flag of the sender's record; from a
\* connection without a record in that room it changes nothing and emits
\* nothing; and a produce that completes afterwards appends its producer id to
\* the list of the record it finds, whose flag it leaves as the raise-hand set it
C36_RaiseHandTouchesOnlyFlag ==
    [][/\ \A s \in Sockets, rin \in HandRooms, v \in HandInputs :
             LET r == sanitizeText(rin, "")
                 isParticipant == /\ r \in DOMAIN rooms
                                  /\ s \in DOMAIN rooms[r].participants
             IN RoomRaiseHand(s, rin, v) =>
                   IF isParticipant
                   THEN /\ rooms' = [rooms EXCEPT
                                        ![r].participants[s].raisedHand = (v = "true")]
                        /\ rooms'[r].participants[s].producerIds
                              = rooms[r].participants[s].producerIds
                   ELSE /\ rooms' = rooms
                        /\ sigOut'.emits = <<>>
       /\ \A p \in sigPending :
             (/\ ProduceResumeOk(p)
              /\ p.room \in DOMAIN rooms
              /\ p.sock \in DOMAIN rooms[p.room].participants) =>
                 LET before == rooms[p.room].participants[p.sock]
                     after == rooms'[p.room].participants[p.sock]
                 IN /\ after.raisedHand = before.raisedHand
                    /\ after.producerIds
                          = Append(before.producerIds, sigOut'.ackData.producerId)]_vars

\* s1, which owns a producer and has a produce suspended on its call, has just
\* raised its hand, s2 being a participant too
C36_Witness ==
    /\ Len(sigOut.emits) = 1
    /\ sigOut.emits[1].ev = "room:hand-raised"
    /\ sigOut.emits[1].data = [userId |-> "s1", raisedHand |-> TRUE]
    /\ "r1" \in DOMAIN rooms
    /\ DOMAIN rooms["r1"].participants = {"s1", "s2"}
    /\ rooms["r1"].participants["s1"].raisedHand
    /\ rooms["r1"].participants["s1"].producerIds # <<>>
    /\ \E p \in sigPending : p.kind = "produce" /\ p.sock = "s1"

\* C37: the events of a departure of connection s from a room in which it has a
\* participant record are one room:producer-removed for each producer id the
\* record lists, then one room:peer-left with the record's userId, every one
\* of them addressed to the other members of that room and none to s; a
\* disconnect emits such a run for each of the connection's rooms in turn; and
\* in the state in which the events are out, the record and the index entries
\* of the listed producers are gone
C37_RemovedBeforeLeft ==
    [][\A s \in Sockets :
          LET Run(r, seq) ==
                  IF r \notin DOMAIN rooms \/ s \notin DOMAIN rooms[r].participants
                  THEN seq = <<>>
                  ELSE LET rec == rooms[r].participants[s]
                           n == Len(rec.producerIds)
                       IN /\ Len(seq) = n + 1
                          /\ \A i \in 1..n : seq[i].ev = "room:producer-removed"
                          /\ {seq[i].data.producerId : i \in 1..n} = SeqToSet(rec.producerIds)
                          /\ seq[n + 1].ev = "room:peer-left"
                          /\ seq[n + 1].data = [userId |-> rec.userId]
                          /\ \A i \in 1..(n + 1) :
                                /\ s \notin seq[i].to
                                /\ seq[i].to = Members(sioRooms, r) \ {s}
                          /\ s \notin DOMAIN rooms'[r].participants
                          /\ SeqToSet(rec.producerIds) \cap DOMAIN rooms'[r].producers = {}
              emits == sigOut'.emits
              ids == sioRooms[s]
          IN /\ \A r \in RoomIds : RoomLeave(s, r) => Run(r, emits)
             /\ Disconnecting(s) =>
                   \E k \in 0..Len(emits) :
                       /\ Len(ids) <= 2
                       /\ Len(ids) = 0 => emits = <<>>
                       /\ Len(ids) = 1 => (k = Len(emits) /\ Run(ids[1], emits))
                       /\ Len(ids) = 2 =>
                             /\ Run(ids[1], SubSeq(emits, 1, k))
                             /\ Run(ids[2], SubSeq(emits, k + 1, Len(emits)))]_vars

\* a participant that owned a producer has departed with another member in the
\* room: room:producer-removed, then room:peer-left, went to that member, and
\* the record is gone
C37_Witness ==
    /\ Len(sigOut.emits) >= 2
    /\ sigOut.emits[Len(sigOut.emits) - 1].ev = "room:producer-removed"
    /\ sigOut.emits[Len(sigOut.emits)].ev = "room:peer-left"
    /\ sigOut.emits[Len(sigOut.emits)].to = {"s2"}
    /\ "s1" \notin DOMAIN rooms["r1"].participants

\* C38: no step removes a room from the rooms map, shortens or alters the chat
\* history a room has (but for the cut to the newest messages when one is
\* appended) or unsets a capability cache; a room:leave or disconnect, of the
\* last participant included, leaves history and cache as they are; and a join
\* of a room that has no participant and a set cache gets that history and
\* those capabilities in its roster and is acknowledged at once, without a fetch
C38_RoomStatePersists ==
    [][/\ DOMAIN rooms \subseteq DOMAIN rooms'
       /\ \A r \in DOMAIN rooms :
             /\ rooms[r].rtpCapabilities # "none" =>
                   rooms'[r].rtpCapabilities = rooms[r].rtpCapabilities
             /\ \/ rooms'[r].messages = rooms[r].messages
                \/ /\ Len(rooms'[r].messages) > 0
                   /\ SubSeq(rooms'[r].messages, 1, Len(rooms'[r].messages) - 1)
                         = Last(HistoryKeep, rooms[r].messages)
       /\ \A s \in Sockets :
             (RoomLeave(s, "r1") \/ Disconnecting(s)) =>
                \A r \in DOMAIN rooms :
                    /\ rooms'[r].messages = rooms[r].messages
                    /\ rooms'[r].rtpCapabilities = rooms[r].rtpCapabilities
       /\ \A s \in Sockets, ident \in JoinIdentities :
             (/\ RoomJoin(s, "r1", ident)
              /\ "r1" \in DOMAIN rooms
              /\ DOMAIN rooms["r1"].participants = {}
              /\ rooms["r1"].rtpCapabilities # "none") =>
                /\ sigOut'.emits[2].ev = "room:roster"
                /\ sigOut'.emits[2].to = {s}
                /\ sigOut'.emits[2].data.messages = rooms["r1"].messages
                /\ sigOut'.emits[2].data.rtpCapabilities = rooms["r1"].rtpCapabilities
                /\ sigOut'.ack = "ok"
                /\ sigPending' = sigPending]_vars

\* s1, the participant of r1 at the start, is gone, and s2 has just joined the
\* room with nobody in it: its roster has no peer, the chat history and the
\* capabilities
C38_Witness ==
    /\ Len(sigOut.emits) = 2
    /\ sigOut.emits[2].ev = "room:roster"
    /\ sigOut.emits[2].to = {"s2"}
    /\ sigOut.emits[2].data.peers = {}
    /\ Len(sigOut.emits[2].data.messages) >= ChatPrefill
    /\ sigOut.emits[2].data.rtpCapabilities = "caps"
    /\ DOMAIN rooms["r1"].participants = {"s2"}
    /\ ~connected["s1"]

====
